---- MODULE Spec2Model ----
(***************************************************************************)
(* terrascope: ParseTfstate (decoder) and BuildGraph (graph builder).      *)
(*                                                                         *)
(* Go values are represented as follows.                                   *)
(*   string            a TLA+ string                                       *)
(*   []T               a sequence (the nil slice is <<>>)                  *)
(*   *T                <<>> for nil, <<x>> for a pointer to x              *)
(*   error             ErrNil or the error's message                       *)
(*   map[string]T      a function whose DOMAIN is the set of keys          *)
(*   any               a record tagged by "kind": AnyNil, Float64(n),      *)
(*                     Float64Dec(m, e), Str(s), Bool(b), Slice(s),        *)
(*                     Map(m), Ptr(p)                                      *)
(* A JSON document is a function from the member names that occur in it to *)
(* their values; values decoded into `any` are tagged JSON values.         *)
(***************************************************************************)
EXTENDS Naturals, Sequences, FiniteSets, TLC

VARIABLES
    data,      \* data[v]: the payload handed to ParseTfstate by invocation v
    pc,        \* pc[v]: where invocation v stands
    state,     \* state[v]: *TerraformState returned by ParseTfstate
    err,       \* err[v]: error returned by ParseTfstate
    ri,        \* ri[v]: position of BuildGraph's outer loop (1-based)
    ii,        \* ii[v]: position of BuildGraph's inner loop (1-based)
    graph,     \* graph[v]: *Graph under construction / returned
    nodeMap,   \* nodeMap[v]: identifiers already emitted by invocation v
    origin,    \* origin[v]: for each node of graph[v], the pair <<r, i>> that produced it
    call,      \* a direct call of one helper function with its arguments
    ret,       \* the value that call returned (<<>> before it returns)
    req,       \* req[v]: the *http.Request invocation v serves
    resp,      \* resp[v]: what invocation v has written to its http.ResponseWriter
    served     \* served[v]: how often each handler was entered for req[v]

vars == <<data, pc, state, err, ri, ii, graph, nodeMap, origin, call, ret,
          req, resp, served>>

\* the variables of the HTTP layer
http == <<req, resp, served>>

\* The invocations of decode-then-build.
Invocations == {"run1", "run2"}

Range(s) == {s[k] : k \in 1..Len(s)}

\* All sequences over S of length at most n.
SeqsUpTo(S, n) == UNION {[1..k -> S] : k \in 0..n}

\* All orders in which the elements of the finite set S can be enumerated.
Perms(S) == {p \in [1..Cardinality(S) -> S] : Range(p) = S}

---------------------------------------------------------------------------
(* Values of Go's `any` and of JSON.                                       *)

AnyNil == [kind |-> "nil"]

\* float64 values are the non-negative decimals num / 10^scale of at most 9
\* digits, which float64 tells apart; Float64(n) is the whole number n
Float64Dec(m, e) == [kind |-> "float64", num |-> m, scale |-> e]

Float64(n) == Float64Dec(n, 0)

IntVal(n) == [kind |-> "int", num |-> n]

Str(s) == [kind |-> "string", str |-> s]

Bool(b) == [kind |-> "bool", val |-> b]

\* []any
Slice(s) == [kind |-> "slice", elems |-> s]

Map(m) == [kind |-> "map", map |-> m]

\* p is <<>> (a typed nil pointer) or <<x>> (a pointer to the value x)
Ptr(p) == [kind |-> "ptr", elem |-> p]

JNull == [kind |-> "null"]

\* the JSON number m / 10^e, written without trailing zeros after the point
JDecimal(m, e) == [kind |-> "number", num |-> m, scale |-> e]

JNumber(n) == JDecimal(n, 0)

JString(s) == [kind |-> "string", str |-> s]

JObject(m) == [kind |-> "object", map |-> m]

JBool(b) == [kind |-> "bool", val |-> b]

JArray(s) == [kind |-> "array", elems |-> s]

\* encoding/json into an `any`: null -> nil, number -> float64,
\* string -> string, object -> map[string]any, true/false -> bool,
\* array -> []any
RECURSIVE DecodeAny(_)
DecodeAny(j) ==
    CASE j.kind = "null"   -> AnyNil
      [] j.kind = "number" -> Float64Dec(j.num, j.scale)
      [] j.kind = "string" -> Str(j.str)
      [] j.kind = "object" -> Map([k \in DOMAIN j.map |-> DecodeAny(j.map[k])])
      [] j.kind = "bool"   -> Bool(j.val)
      [] j.kind = "array"  -> Slice([k \in 1..Len(j.elems) |-> DecodeAny(j.elems[k])])

\* A struct field decoded from a JSON object: the member's value when the
\* member occurs, the field's zero value otherwise.
Field(obj, key, zero) == IF key \in DOMAIN obj THEN obj[key] ELSE zero

DecodeInstance(j) ==
    [ SchemaVersion  |-> Field(j, "schema_version", 0),
      Attributes     |-> LET a == Field(j, "attributes", <<>>)
                         IN  [k \in DOMAIN a |-> DecodeAny(a[k])],
      AttributesFlat |-> Field(j, "attributes_flat", <<>>),
      Private        |-> Field(j, "private", ""),
      Dependencies   |-> Field(j, "dependencies", <<>>),
      IndexKey       |-> DecodeAny(Field(j, "index_key", JNull)) ]

DecodeResource(j) ==
    [ Mode      |-> Field(j, "mode", ""),
      Type      |-> Field(j, "type", ""),
      Name      |-> Field(j, "name", ""),
      Provider  |-> Field(j, "provider", ""),
      Module    |-> Field(j, "module", ""),
      Instances |-> LET is == Field(j, "instances", <<>>)
                    IN  [k \in 1..Len(is) |-> DecodeInstance(is[k])],
      DependsOn |-> Field(j, "depends_on", <<>>) ]

\* an element of "outputs" decoded into Output{Value any, Type any, Sensitive bool}
DecodeOutput(j) ==
    [ Value     |-> DecodeAny(Field(j, "value", JNull)),
      Type      |-> DecodeAny(Field(j, "type", JNull)),
      Sensitive |-> Field(j, "sensitive", FALSE) ]

\* json.Unmarshal(data, &state) on a document of the TerraformState shape
DecodeState(j) ==
    [ Version          |-> Field(j, "version", 0),
      TerraformVersion |-> Field(j, "terraform_version", ""),
      Serial           |-> Field(j, "serial", 0),
      Lineage          |-> Field(j, "lineage", ""),
      Outputs          |-> LET os == Field(j, "outputs", <<>>)
                           IN  [k \in DOMAIN os |-> DecodeOutput(os[k])],
      Resources        |-> LET rs == Field(j, "resources", <<>>)
                           IN  [k \in 1..Len(rs) |-> DecodeResource(rs[k])] ]

---------------------------------------------------------------------------
(* ParseTfstate.  A payload is [empty, doc]: whether len(data) = 0 and,    *)
(* when the bytes are a JSON document of the TerraformState shape, that    *)
(* document (<<doc>>); doc = <<>> when json.Unmarshal rejects the bytes.   *)
(* The document's members are those json.Unmarshal assigns to a field of   *)
(* the struct: a member whose value is null leaves the field at its zero   *)
(* value and is represented as absent, and so is the document `null`.      *)

ErrNil == "<nil>"

ErrEmpty == "empty tfstate data"

ErrUnmarshal == "failed to unmarshal tfstate"

ErrMissingVersion == "invalid tfstate: missing version field"

ErrMissingTerraformVersion == "invalid tfstate: missing terraform_version field"

ParseTfstateNoVersionCheck(d) ==
    IF d.empty THEN [state |-> <<>>, err |-> ErrEmpty]
    ELSE IF d.doc = <<>> THEN [state |-> <<>>, err |-> ErrUnmarshal]
    ELSE LET st == DecodeState(d.doc[1])
         IN  IF st.TerraformVersion = ""
             THEN [state |-> <<>>, err |-> ErrMissingTerraformVersion]
             ELSE [state |-> <<st>>, err |-> ErrNil]

ParseTfstateKeepsState(d) ==
    IF d.empty THEN [state |-> <<>>, err |-> ErrEmpty]
    ELSE IF d.doc = <<>> THEN [state |-> <<>>, err |-> ErrUnmarshal]
    ELSE LET st == DecodeState(d.doc[1])
         IN  IF st.Version = 0
             THEN [state |-> <<st>>, err |-> ErrMissingVersion]
             ELSE IF st.TerraformVersion = ""
             THEN [state |-> <<st>>, err |-> ErrMissingTerraformVersion]
             ELSE [state |-> <<st>>, err |-> ErrNil]

\* ParseTfstate with the two field checks exchanged
ParseTfstateTerraformVersionFirst(d) ==
    IF d.empty THEN [state |-> <<>>, err |-> ErrEmpty]
    ELSE IF d.doc = <<>> THEN [state |-> <<>>, err |-> ErrUnmarshal]
    ELSE LET st == DecodeState(d.doc[1])
         IN  IF st.TerraformVersion = ""
             THEN [state |-> <<>>, err |-> ErrMissingTerraformVersion]
             ELSE IF st.Version = 0
             THEN [state |-> <<>>, err |-> ErrMissingVersion]
             ELSE [state |-> <<st>>, err |-> ErrNil]

ParseTfstate(d) ==
    IF d.empty THEN [state |-> <<>>, err |-> ErrEmpty]
    ELSE IF d.doc = <<>> THEN [state |-> <<>>, err |-> ErrUnmarshal]
    ELSE LET st == DecodeState(d.doc[1])
         IN  IF st.Version = 0
             THEN [state |-> <<>>, err |-> ErrMissingVersion]
             ELSE IF st.TerraformVersion = ""
             THEN [state |-> <<>>, err |-> ErrMissingTerraformVersion]
             ELSE [state |-> <<st>>, err |-> ErrNil]

---------------------------------------------------------------------------
(* strings and fmt helpers                                                 *)

HasPrefix(s, p) == Len(s) >= Len(p) /\ SubSeq(s, 1, Len(p)) = p

HasSuffix(s, p) == Len(s) >= Len(p) /\ SubSeq(s, Len(s) - Len(p) + 1, Len(s)) = p

TrimPrefix(s, p) == IF HasPrefix(s, p) THEN SubSeq(s, Len(p) + 1, Len(s)) ELSE s

TrimSuffix(s, p) == IF HasSuffix(s, p) THEN SubSeq(s, 1, Len(s) - Len(p)) ELSE s

\* strings.Index: 1-based position of the first occurrence of sep in s, 0 if none
Index(s, sep) ==
    LET hits == {k \in 1..Len(s) : HasPrefix(SubSeq(s, k, Len(s)), sep)}
    IN  IF hits = {} THEN 0 ELSE CHOOSE k \in hits : \A m \in hits : k <= m

\* strings.Split(s, sep) for a non-empty sep
RECURSIVE Split(_, _)
Split(s, sep) ==
    LET k == Index(s, sep)
    IN  IF k = 0 THEN <<s>>
        ELSE <<SubSeq(s, 1, k - 1)>> \o Split(SubSeq(s, k + Len(sep), Len(s)), sep)

\* strings.Join(parts, sep)
RECURSIVE Join(_, _)
Join(parts, sep) ==
    IF parts = <<>> THEN ""
    ELSE IF Len(parts) = 1 THEN parts[1]
    ELSE parts[1] \o sep \o Join(Tail(parts), sep)

RECURSIVE TrimZeros(_)
TrimZeros(digits) ==
    IF Len(digits) > 1 /\ HasSuffix(digits, "0")
    THEN TrimZeros(SubSeq(digits, 1, Len(digits) - 1))
    ELSE digits

RECURSIVE Zeros(_)
Zeros(n) == IF n = 0 THEN "" ELSE "0" \o Zeros(n - 1)

\* strconv.FormatFloat(f, 'g', -1, 64), which is what %v prints for a
\* float64: the shortest digits that give f back, with the decimal exponent
\* x of the first digit; written d.ddde+xx when x < -4 or x >= 6, and
\* as a plain decimal otherwise
FormatFloat(v) ==
    LET all    == ToString(v.num)
        digits == TrimZeros(all)
        nd     == Len(all)
        e      == v.scale
        mant   == IF Len(digits) = 1 THEN digits
                  ELSE SubSeq(digits, 1, 1) \o "." \o SubSeq(digits, 2, Len(digits))
        two(x) == IF x < 10 THEN "0" \o ToString(x) ELSE ToString(x)
    IN  IF v.num = 0 THEN "0"
        ELSE IF nd > e
        THEN \* the value is at least 1, x = nd - e - 1
             IF nd - e - 1 >= 6
             THEN mant \o "e+" \o two(nd - e - 1)
             ELSE IF nd - e >= Len(digits)
             THEN digits \o Zeros((nd - e) - Len(digits))
             ELSE SubSeq(digits, 1, nd - e) \o "." \o SubSeq(digits, nd - e + 1, Len(digits))
        ELSE \* the value is below 1, x = -(e - nd + 1)
             IF e - nd + 1 > 4
             THEN mant \o "e-" \o two(e - nd + 1)
             ELSE "0." \o Zeros(e - nd) \o digits

\* fmt's %v of a value (the kinds an index key can have here)
FormatV(v) ==
    CASE v.kind = "nil"     -> "<nil>"
      [] v.kind = "float64" -> FormatFloat(v)
      [] v.kind = "int"     -> ToString(v.num)
      [] v.kind = "string"  -> v.str
      [] v.kind = "bool"    -> IF v.val THEN "true" ELSE "false"
      [] v.kind = "ptr" /\ v.elem = <<>> -> "<nil>"

---------------------------------------------------------------------------
(* Graph builder helpers                                                   *)

\* m[k] = v on a Go map
MapPut(m, k, v) == [x \in (DOMAIN m) \cup {k} |-> IF x = k THEN v ELSE m[x]]

\* reflect: one level of pointer is dereferenced when the pointer is not nil
Deref(key) == IF key.kind = "ptr" /\ key.elem # <<>> THEN key.elem[1] ELSE key

buildNodeIDAlwaysIndexed(res, instance, instanceIndex) ==
    LET parts0 == IF res.Module # "" THEN <<res.Module>> ELSE <<>>
        parts1 == parts0 \o <<res.Type, res.Name>>
        key    == instance.IndexKey
        parts2 == IF key.kind # "nil"
                  THEN parts1 \o <<"[" \o FormatV(Deref(key)) \o "]">>
                  ELSE parts1 \o <<"[" \o ToString(instanceIndex) \o "]">>
    IN  Join(parts2, ".")

buildNodeIDPositionOnly(res, instance, instanceIndex) ==
    LET parts0 == IF res.Module # "" THEN <<res.Module>> ELSE <<>>
        parts1 == parts0 \o <<res.Type, res.Name>>
        parts2 == IF Len(res.Instances) > 1
                  THEN parts1 \o <<"[" \o ToString(instanceIndex) \o "]">>
                  ELSE parts1
    IN  Join(parts2, ".")

\* an index key is written between quotes, a position is not
buildNodeIDQuotesKey(res, instance, instanceIndex) ==
    LET parts0 == IF res.Module # "" THEN <<res.Module>> ELSE <<>>
        parts1 == parts0 \o <<res.Type, res.Name>>
        key    == instance.IndexKey
        parts2 == IF Len(res.Instances) > 1
                  THEN IF key.kind # "nil"
                       THEN parts1 \o <<"[\"" \o FormatV(Deref(key)) \o "\"]">>
                       ELSE parts1 \o <<"[" \o ToString(instanceIndex) \o "]">>
                  ELSE parts1
    IN  Join(parts2, ".")

\* instanceIndex is the zero-based position of instance in res.Instances
buildNodeID(res, instance, instanceIndex) ==
    LET parts0 == IF res.Module # "" THEN <<res.Module>> ELSE <<>>
        parts1 == parts0 \o <<res.Type, res.Name>>
        key    == instance.IndexKey
        parts2 == IF Len(res.Instances) > 1
                  THEN IF key.kind # "nil"
                       THEN parts1 \o <<"[" \o FormatV(Deref(key)) \o "]">>
                       ELSE parts1 \o <<"[" \o ToString(instanceIndex) \o "]">>
                  ELSE parts1
    IN  Join(parts2, ".")

ProviderPrefix == "provider[\""

ProviderSuffix == "\"]"

extractProviderNameFirstSegment(providerString) ==
    LET s1    == TrimPrefix(providerString, ProviderPrefix)
        s2    == TrimSuffix(s1, ProviderSuffix)
        parts == Split(s2, "/")
    IN  IF Len(parts) > 0 THEN parts[1] ELSE s2

extractProviderName(providerString) ==
    LET s1    == TrimPrefix(providerString, ProviderPrefix)
        s2    == TrimSuffix(s1, ProviderSuffix)
        parts == Split(s2, "/")
    IN  IF Len(parts) > 0 THEN parts[Len(parts)] ELSE s2

buildMetadataCopiesAll(res, instance) ==
    LET attrs == instance.Attributes
        m0 == MapPut(attrs, "mode", Str(res.Mode))
    IN  IF instance.IndexKey.kind # "nil"
        THEN MapPut(m0, "index_key", instance.IndexKey)
        ELSE m0

\* tags is copied whatever its type
buildMetadataAnyTags(res, instance) ==
    LET attrs == instance.Attributes
        m0 == MapPut(<<>>, "mode", Str(res.Mode))
        m1 == IF "id" \in DOMAIN attrs THEN MapPut(m0, "id", attrs["id"]) ELSE m0
        m2 == IF "name" \in DOMAIN attrs THEN MapPut(m1, "name", attrs["name"]) ELSE m1
        m3 == IF "arn" \in DOMAIN attrs THEN MapPut(m2, "arn", attrs["arn"]) ELSE m2
        m4 == IF "tags" \in DOMAIN attrs THEN MapPut(m3, "tags", attrs["tags"]) ELSE m3
    IN  IF instance.IndexKey.kind # "nil"
        THEN MapPut(m4, "index_key", instance.IndexKey)
        ELSE m4

buildMetadata(res, instance) ==
    LET attrs == instance.Attributes
        m0 == MapPut(<<>>, "mode", Str(res.Mode))
        m1 == IF "id" \in DOMAIN attrs THEN MapPut(m0, "id", attrs["id"]) ELSE m0
        m2 == IF "name" \in DOMAIN attrs THEN MapPut(m1, "name", attrs["name"]) ELSE m1
        m3 == IF "arn" \in DOMAIN attrs THEN MapPut(m2, "arn", attrs["arn"]) ELSE m2
        m4 == IF "tags" \in DOMAIN attrs /\ attrs["tags"].kind = "map"
              THEN MapPut(m3, "tags", attrs["tags"])
              ELSE m3
    IN  IF instance.IndexKey.kind # "nil"
        THEN MapPut(m4, "index_key", instance.IndexKey)
        ELSE m4

\* for _, dep := range explicit { deps[dep] = "depends_on" }
RECURSIVE explicitLoop(_, _)
explicitLoop(deps, explicit) ==
    IF explicit = <<>> THEN deps
    ELSE explicitLoop(MapPut(deps, Head(explicit), "depends_on"), Tail(explicit))

\* for _, dep := range implicit { if _, exists := deps[dep]; !exists { deps[dep] = "implicit" } }
RECURSIVE implicitLoop(_, _)
implicitLoop(deps, implicit) ==
    IF implicit = <<>> THEN deps
    ELSE implicitLoop(IF Head(implicit) \in DOMAIN deps
                      THEN deps
                      ELSE MapPut(deps, Head(implicit), "implicit"),
                      Tail(implicit))

\* the implicit loop without its `exists` test: the last writer wins
RECURSIVE implicitLoopOverwrites(_, _)
implicitLoopOverwrites(deps, implicit) ==
    IF implicit = <<>> THEN deps
    ELSE implicitLoopOverwrites(MapPut(deps, Head(implicit), "implicit"), Tail(implicit))

collectDependenciesImplicitWins(explicit, implicit) ==
    implicitLoopOverwrites(explicitLoop(<<>>, explicit), implicit)

collectDependencies(explicit, implicit) ==
    implicitLoop(explicitLoop(<<>>, explicit), implicit)

---------------------------------------------------------------------------
(* The pipeline: ParseTfstate, then BuildGraph, per invocation.            *)
(* pc[v]: "idle" -> "start" -> "parsed" | "failed";                        *)
(*        "parsed" -> "build" -> "done".                                   *)

NoState == <<>>

NoGraph == <<>>

\* nodeMap is shared by every invocation instead of being owned by one
nodeMapShared(v) == UNION {nodeMap[w] : w \in Invocations}

\* nodeMap never remembers an identifier
nodeMapForgets(v) == {}

\* the identifiers for which nodeMap[id] is true in invocation v
nodeMapOf(v) == nodeMap[v]

\* state, err := parser.ParseTfstate(body); a non-nil err ends the request
ParseTfstateCall(v) ==
    /\ pc[v] = "start"
    /\ LET r == ParseTfstate(data[v])
       IN  /\ state' = [state EXCEPT ![v] = r.state]
           /\ err' = [err EXCEPT ![v] = r.err]
           /\ pc' = [pc EXCEPT ![v] = IF r.err = ErrNil THEN "parsed" ELSE "failed"]
    /\ UNCHANGED <<data, ri, ii, graph, nodeMap, origin, call, ret, http>>

\* the graph is allocated only when there is a resource to put in it
BuildGraphEnterLazy(v) ==
    /\ pc[v] = "parsed"
    /\ graph' = [graph EXCEPT ![v] =
           IF state[v][1].Resources = <<>>
           THEN NoGraph
           ELSE <<[Nodes |-> <<>>, Edges |-> <<>>, Stats |-> <<>>]>>]
    /\ nodeMap' = [nodeMap EXCEPT ![v] = {}]
    /\ ri' = [ri EXCEPT ![v] = 1]
    /\ ii' = [ii EXCEPT ![v] = 1]
    /\ pc' = [pc EXCEPT ![v] = "build"]
    /\ UNCHANGED <<data, state, err, origin, call, ret, http>>

\* graph := &models.Graph{...}; nodeMap := make(map[string]bool)
BuildGraphEnter(v) ==
    /\ pc[v] = "parsed"
    /\ graph' = [graph EXCEPT ![v] = <<[Nodes |-> <<>>, Edges |-> <<>>, Stats |-> <<>>]>>]
    /\ nodeMap' = [nodeMap EXCEPT ![v] = {}]
    /\ ri' = [ri EXCEPT ![v] = 1]
    /\ ii' = [ii EXCEPT ![v] = 1]
    /\ pc' = [pc EXCEPT ![v] = "build"]
    /\ UNCHANGED <<data, state, err, origin, call, ret, http>>

\* every edge is given the kind "depends_on", whatever the map holds
EdgesOfAllExplicit(nodeID, deps, order) ==
    [k \in 1..Len(order) |->
        [Source |-> nodeID, Target |-> order[k], Type |-> "depends_on"]]

\* the edges appended for one node, the map deps being ranged over in `order`
EdgesOf(nodeID, deps, order) ==
    [k \in 1..Len(order) |->
        [Source |-> nodeID, Target |-> order[k], Type |-> deps[order[k]]]]

\* The inner loop with one thing done differently (how: see the uses
\* below); the rest is the loop body of BuildGraphInstance.
BuildGraphInstanceOtherwise(v, how) ==
    /\ pc[v] = "build"
    /\ ri[v] <= Len(state[v][1].Resources)
    /\ ii[v] <= Len(state[v][1].Resources[ri[v]].Instances)
    /\ LET res      == state[v][1].Resources[ri[v]]
           instance == res.Instances[ii[v]]
           nodeID   == buildNodeID(res, instance, ii[v] - 1)
           node     == [ ID       |-> nodeID,
                         Type     |-> res.Type,
                         Mode     |-> res.Mode,
                         Provider |-> extractProviderName(res.Provider),
                         Module   |-> res.Module,
                         Metadata |-> buildMetadata(res, instance) ]
           deps     == collectDependencies(
                           IF how = "explicit once" /\ ii[v] > 1
                           THEN <<>> ELSE res.DependsOn,
                           instance.Dependencies)
           g        == graph[v][1]
           known(t) == how = "validates" => t \in nodeMap[v] \cup {nodeID}
           at       == CHOOSE k \in 1..Len(g.Nodes) : g.Nodes[k].ID = nodeID
       IN  \E order \in Perms(DOMAIN deps) :
               LET edges == EdgesOf(nodeID, deps,
                                    IF how = "per entry"
                                    THEN res.DependsOn \o instance.Dependencies
                                    ELSE SelectSeq(order, known))
               IN  IF nodeID \in nodeMapOf(v)
                   THEN /\ graph' = [graph EXCEPT ![v] =
                               CASE how = "merges" ->
                                        <<[g EXCEPT !.Edges = g.Edges \o edges]>>
                                 [] how = "overwrites" ->
                                        <<[g EXCEPT !.Nodes[at] = node]>>
                                 [] OTHER -> graph[v]]
                        /\ UNCHANGED <<nodeMap, origin>>
                   ELSE /\ graph' = [graph EXCEPT ![v] =
                               <<[g EXCEPT !.Nodes = IF how = "prepends"
                                                     THEN <<node>> \o g.Nodes
                                                     ELSE Append(g.Nodes, node),
                                           !.Edges = IF how = "edges in front"
                                                     THEN edges \o g.Edges
                                                     ELSE g.Edges \o edges]>>]
                        /\ nodeMap' = [nodeMap EXCEPT ![v] = nodeMap[v] \cup {nodeID}]
                        /\ origin' = [origin EXCEPT ![v] =
                               IF how = "prepends"
                               THEN <<(<<ri[v], ii[v]>>)>> \o origin[v]
                               ELSE Append(origin[v], <<ri[v], ii[v]>>)]
    /\ state' = IF how = "consumes"
                THEN [state EXCEPT
                         ![v][1].Resources[ri[v]].Instances[ii[v]].Dependencies = <<>>]
                ELSE state
    /\ ii' = [ii EXCEPT ![v] = ii[v] + 1]
    /\ UNCHANGED <<data, pc, err, ri, call, ret, http>>

\* references are validated: an edge is appended only when its target is an
\* identifier nodeMap already holds
BuildGraphInstanceValidates(v) == BuildGraphInstanceOtherwise(v, "validates")

\* a repeated identifier still has its dependencies collected: the edges of
\* the occurrence are merged into the graph
BuildGraphInstanceMerges(v) == BuildGraphInstanceOtherwise(v, "merges")

\* a repeated identifier replaces the node emitted for the earlier occurrence
BuildGraphInstanceOverwrites(v) == BuildGraphInstanceOtherwise(v, "overwrites")

\* a new node is put in front of the node sequence
BuildGraphInstancePrepends(v) == BuildGraphInstanceOtherwise(v, "prepends")

\* the dependencies list of an instance is emptied once it was looked at
BuildGraphInstanceConsumes(v) == BuildGraphInstanceOtherwise(v, "consumes")

\* the resource's depends_on list is applied to its first instance only
BuildGraphInstanceExplicitOnce(v) == BuildGraphInstanceOtherwise(v, "explicit once")

\* the edges of a new node are put in front of the edge sequence
BuildGraphInstanceEdgesInFront(v) == BuildGraphInstanceOtherwise(v, "edges in front")

\* one edge is appended per entry of the two dependency lists
BuildGraphInstancePerEntry(v) == BuildGraphInstanceOtherwise(v, "per entry")

\* one iteration of the inner loop: for i, instance := range res.Instances
BuildGraphInstance(v) ==
    /\ pc[v] = "build"
    /\ ri[v] <= Len(state[v][1].Resources)
    /\ ii[v] <= Len(state[v][1].Resources[ri[v]].Instances)
    /\ LET res      == state[v][1].Resources[ri[v]]
           instance == res.Instances[ii[v]]
           nodeID   == buildNodeID(res, instance, ii[v] - 1)
           node     == [ ID       |-> nodeID,
                         Type     |-> res.Type,
                         Mode     |-> res.Mode,
                         Provider |-> extractProviderName(res.Provider),
                         Module   |-> res.Module,
                         Metadata |-> buildMetadata(res, instance) ]
           deps     == collectDependencies(res.DependsOn, instance.Dependencies)
           g        == graph[v][1]
       IN  IF nodeID \in nodeMapOf(v)
           THEN UNCHANGED <<graph, nodeMap, origin>>
           ELSE \E order \in Perms(DOMAIN deps) :
                   /\ graph' = [graph EXCEPT ![v] =
                          <<[g EXCEPT !.Nodes = Append(g.Nodes, node),
                                      !.Edges = g.Edges \o EdgesOf(nodeID, deps, order)]>>]
                   /\ nodeMap' = [nodeMap EXCEPT ![v] = nodeMap[v] \cup {nodeID}]
                   /\ origin' = [origin EXCEPT ![v] = Append(origin[v], <<ri[v], ii[v]>>)]
    /\ ii' = [ii EXCEPT ![v] = ii[v] + 1]
    /\ UNCHANGED <<data, pc, state, err, ri, call, ret, http>>

\* the outer loop starts the same resource over instead of taking the next
BuildGraphNextResourceAgain(v) ==
    /\ pc[v] = "build"
    /\ ri[v] <= Len(state[v][1].Resources)
    /\ ii[v] > Len(state[v][1].Resources[ri[v]].Instances)
    /\ ri' = ri
    /\ ii' = [ii EXCEPT ![v] = 1]
    /\ UNCHANGED <<data, pc, state, err, graph, nodeMap, origin, call, ret, http>>

\* a resource left without having had an instance gets a node of its own,
\* with an edge per target of its depends_on list
BuildGraphNextResourcePlaceholder(v) ==
    /\ pc[v] = "build"
    /\ ri[v] <= Len(state[v][1].Resources)
    /\ ii[v] > Len(state[v][1].Resources[ri[v]].Instances)
    /\ LET res    == state[v][1].Resources[ri[v]]
           nodeID == res.Type \o "." \o res.Name
           node   == [ ID       |-> nodeID,
                       Type     |-> res.Type,
                       Mode     |-> res.Mode,
                       Provider |-> extractProviderName(res.Provider),
                       Module   |-> res.Module,
                       Metadata |-> [mode |-> Str(res.Mode)] ]
           deps   == collectDependencies(res.DependsOn, <<>>)
           g      == graph[v][1]
       IN  IF res.Instances # <<>>
           THEN UNCHANGED <<graph, nodeMap, origin>>
           ELSE \E order \in Perms(DOMAIN deps) :
                   /\ graph' = [graph EXCEPT ![v] =
                          <<[g EXCEPT !.Nodes = Append(g.Nodes, node),
                                      !.Edges = g.Edges \o EdgesOf(nodeID, deps, order)]>>]
                   /\ nodeMap' = [nodeMap EXCEPT ![v] = nodeMap[v] \cup {nodeID}]
                   /\ origin' = [origin EXCEPT ![v] = Append(origin[v], <<ri[v], 0>>)]
    /\ ri' = [ri EXCEPT ![v] = ri[v] + 1]
    /\ ii' = [ii EXCEPT ![v] = 1]
    /\ UNCHANGED <<data, pc, state, err, call, ret, http>>

\* the inner loop is exhausted: the outer loop takes the next resource
BuildGraphNextResource(v) ==
    /\ pc[v] = "build"
    /\ ri[v] <= Len(state[v][1].Resources)
    /\ ii[v] > Len(state[v][1].Resources[ri[v]].Instances)
    /\ ri' = [ri EXCEPT ![v] = ri[v] + 1]
    /\ ii' = [ii EXCEPT ![v] = 1]
    /\ UNCHANGED <<data, pc, state, err, graph, nodeMap, origin, call, ret, http>>

\* the outer loop is exhausted: return graph
BuildGraphReturn(v) ==
    /\ pc[v] = "build"
    /\ ri[v] > Len(state[v][1].Resources)
    /\ pc' = [pc EXCEPT ![v] = "done"]
    /\ UNCHANGED <<data, state, err, ri, ii, graph, nodeMap, origin, call, ret, http>>

Finished(v) == pc[v] \in {"done", "failed"}

\* the caller runs decode-then-build again once every started invocation
\* has returned
InvokeAgain(v) ==
    /\ pc[v] = "idle"
    /\ \A w \in Invocations \ {v} : pc[w] = "idle" \/ Finished(w)
    /\ \E w \in Invocations : Finished(w)
    /\ pc' = [pc EXCEPT ![v] = "start"]
    /\ UNCHANGED <<data, state, err, ri, ii, graph, nodeMap, origin, call, ret, http>>

Next ==
    \E v \in Invocations :
        \/ InvokeAgain(v)
        \/ ParseTfstateCall(v)
        \/ BuildGraphEnter(v)
        \/ BuildGraphInstance(v)
        \/ BuildGraphNextResource(v)
        \/ BuildGraphReturn(v)

NoCall == [fn |-> "none"]

\* no request is being served: ParseTfstate and BuildGraph are called directly
NoRequest == <<>>

NoResponse == <<>>

NoHTTP ==
    /\ req = [v \in Invocations |-> NoRequest]
    /\ resp = [v \in Invocations |-> NoResponse]
    /\ served = [v \in Invocations |-> <<>>]

\* run1 is about to decode payload d; run2 will repeat that on the same bytes
InitPipeline(d) ==
    /\ data = [v \in Invocations |-> d]
    /\ pc = [v \in Invocations |-> IF v = "run1" THEN "start" ELSE "idle"]
    /\ state = [v \in Invocations |-> NoState]
    /\ err = [v \in Invocations |-> ErrNil]
    /\ ri = [v \in Invocations |-> 0]
    /\ ii = [v \in Invocations |-> 0]
    /\ graph = [v \in Invocations |-> NoGraph]
    /\ nodeMap = [v \in Invocations |-> {}]
    /\ origin = [v \in Invocations |-> <<>>]
    /\ call = NoCall
    /\ ret = <<>>
    /\ NoHTTP

---------------------------------------------------------------------------
(* Payloads                                                                *)

EmptyPayload == [empty |-> TRUE, doc |-> <<>>]

\* non-empty bytes that json.Unmarshal rejects, e.g. `{invalid json`
GarbagePayload == [empty |-> FALSE, doc |-> <<>>]

\* the bytes of JSON document j
PayloadOf(j) == [empty |-> FALSE, doc |-> <<j>>]

\* a valid document with the given resources
StateDoc(resources) ==
    [version |-> 4, terraform_version |-> "1.5.0", serial |-> 1,
     lineage |-> "abc-123", resources |-> resources]

MaxResources == 2

AwsProvider == "provider[\"registry.terraform.io/hashicorp/aws\"]"

\* resource records of a document, without their instances
HeadVpc ==
    [mode |-> "managed", type |-> "aws_vpc", name |-> "main", provider |-> AwsProvider]

HeadVpcData ==
    [mode |-> "data", type |-> "aws_vpc", name |-> "main", provider |-> "aws",
     depends_on |-> <<"aws_subnet.a">>]

HeadModule ==
    [mode |-> "managed", type |-> "aws_vpc", name |-> "main", provider |-> AwsProvider,
     module |-> "module.app"]

\* joins to the same identifier as HeadModule
HeadDotted ==
    [mode |-> "data", type |-> "module.app.aws_vpc", name |-> "main",
     provider |-> "provider[\"aws\"]", depends_on |-> <<"aws_subnet.a">>]

Heads == {HeadVpc, HeadVpcData, HeadModule, HeadDotted}

InstPlain ==
    [schema_version |-> 1, attributes |-> [id |-> JString("vpc-1")],
     dependencies |-> <<"aws_vpc.main">>]

\* an instance whose index key reads like the position 1
InstKeyed ==
    [attributes |-> [id |-> JString("vpc-2"), secret |-> JString("nope")],
     index_key |-> JNumber(1)]

InstanceLists ==
    {<<>>, <<InstPlain>>, <<InstPlain, InstKeyed>>, <<InstKeyed, InstPlain>>}

ResourcePool == {MapPut(h, "instances", is) : h \in Heads, is \in InstanceLists}

\* version / terraform_version / resources each absent, zero or set
ParseDocs ==
    {[k \in ks |-> CASE k = "version" -> ver
                     [] k = "terraform_version" -> tfv
                     [] k = "resources" -> <<>>] :
        ks \in SUBSET {"version", "terraform_version", "resources"},
        ver \in {0, 4}, tfv \in {"", "1.5.0"}}

ParsePayloads == {EmptyPayload, GarbagePayload} \cup {PayloadOf(j) : j \in ParseDocs}

GraphPayloads == {PayloadOf(StateDoc(rs)) : rs \in SeqsUpTo(ResourcePool, MaxResources)}

Init == \E d \in ParsePayloads \cup GraphPayloads : InitPipeline(d)

Spec == Init /\ [][Next]_vars

---------------------------------------------------------------------------
(* Dependency lists: one resource "aws_instance.web" whose explicit list   *)
(* and whose first instance's implicit list range over every list of       *)
(* targets up to MaxDeps entries, in every order and with repetitions.     *)

MaxDeps == 2

Targets == {"aws_vpc.main", "aws_subnet.a"}

DepLists == SeqsUpTo(Targets, MaxDeps)

WebInstance(implicit) ==
    [attributes |-> [id |-> JString("i-1")], dependencies |-> implicit]

WebResource(explicit, instances) ==
    [mode |-> "managed", type |-> "aws_instance", name |-> "web",
     provider |-> AwsProvider, depends_on |-> explicit, instances |-> instances]

DepsPayloads ==
    {PayloadOf(StateDoc(<<WebResource(e, is)>>)) :
        e \in DepLists,
        is \in UNION {{<<WebInstance(i)>>, <<WebInstance(i), WebInstance(<<"aws_vpc.main">>)>>} :
                         i \in DepLists}}

InitDeps == \E d \in DepsPayloads : InitPipeline(d)

SpecDeps == InitDeps /\ [][Next]_vars

---------------------------------------------------------------------------
(* Attributes: one resource with one instance whose attribute mapping      *)
(* ranges over the members id, name, arn, tags and secret, each absent or  *)
(* holding one of the values below; index_key absent, a number or a string.*)

AttrKeys == {"id", "name", "arn", "tags", "secret"}

AttrValues(k) ==
    CASE k = "id"     -> {JString("x"), JNull}
      [] k = "name"   -> {JString("y")}
      [] k = "arn"    -> {JString("z")}
      [] k = "tags"   -> {JObject([a |-> JString("b")]), JString("notamap"), JNull}
      [] k = "secret" -> {JString("nope")}

AllAttrValues == UNION {AttrValues(k) : k \in AttrKeys}

AttrMaps ==
    UNION {{f \in [ks -> AllAttrValues] : \A k \in ks : f[k] \in AttrValues(k)} :
              ks \in SUBSET AttrKeys}

MetaInstances ==
    {[attributes |-> a] : a \in AttrMaps}
    \cup {[attributes |-> a, index_key |-> key] :
             a \in AttrMaps, key \in {JNumber(0), JString("a"), JNull}}
    \cup {[schema_version |-> 0], [index_key |-> JNumber(0)]}

MetaResource(mode, instance) ==
    [mode |-> mode, type |-> "aws_s3_bucket", name |-> "assets",
     provider |-> AwsProvider, instances |-> <<instance>>]

MetaPayloads ==
    {PayloadOf(StateDoc(<<MetaResource(m, i)>>)) :
        m \in {"managed", "data"}, i \in MetaInstances}

InitMeta == \E d \in MetaPayloads : InitPipeline(d)

SpecMeta == InitMeta /\ [][Next]_vars

---------------------------------------------------------------------------
(* Repeated identifiers: documents of up to MaxResources resources, each a *)
(* declaration of aws_vpc.main in module.app (with a module member, or as  *)
(* data source with the module path written into the type and a depends_on *)
(* list) with one or two instances, or the two instances of aws_vpc.main   *)
(* outside the module, so that identifiers repeat within and across        *)
(* resources with different fields and different dependencies.             *)

DupPool ==
    {MapPut(h, "instances", is) :
        h \in {HeadModule, HeadDotted}, is \in InstanceLists \ {<<>>}}
    \cup {MapPut(HeadVpcData, "instances", <<InstPlain, InstKeyed>>)}

DupPayloads == {PayloadOf(StateDoc(rs)) : rs \in SeqsUpTo(DupPool, MaxResources)}

InitDup == \E d \in DupPayloads : InitPipeline(d)

SpecDup == InitDup /\ [][Next]_vars

---------------------------------------------------------------------------
(* Termination: documents of up to MaxResources resources drawn from       *)
(* resources without instances, instances without attributes, dependency   *)
(* lists and index key, and resources that have them; the goroutine that   *)
(* runs ParseTfstate and BuildGraph keeps being scheduled (weak fairness). *)

\* an instance with no attributes, no dependencies and no index_key member
InstBare == [schema_version |-> 0]

TermInstanceLists == {<<>>, <<InstBare>>, <<InstPlain, InstKeyed>>}

\* a resource without module and depends_on members
HeadBucket ==
    [mode |-> "managed", type |-> "aws_s3_bucket", name |-> "logs", provider |-> "aws"]

TermPool ==
    {MapPut(h, "instances", is) : h \in {HeadBucket, HeadVpcData}, is \in TermInstanceLists}

TermPayloads == {PayloadOf(StateDoc(rs)) : rs \in SeqsUpTo(TermPool, MaxResources)}

InitTerm == \E d \in ParsePayloads \cup TermPayloads : InitPipeline(d)

SpecTerm == InitTerm /\ [][Next]_vars /\ WF_vars(Next)

---------------------------------------------------------------------------
(* The HTTP layer: Cors(mux) as main builds it, mux routing /health and     *)
(* /parse, and the two handlers. A request is served by one invocation;    *)
(* pc[v]: "Cors" -> "mux" -> "HealthHandler" | "ParseHandler" -> ... ->    *)
(* "responded", ParseHandler going through "read", "start" and the          *)
(* pipeline above. Writes to the connection are taken to succeed.          *)

\* a recorder nothing was written to: no status line, no header, no body
NewRecorder == [Code |-> 0, Header |-> <<>>, Body |-> <<>>]

\* w.WriteHeader(code): only the first status counts
WriteHeader(w, code) == IF w.Code = 0 THEN [w EXCEPT !.Code = code] ELSE w

\* w.Write(chunk): the status is 200 when none was written before
WriteBody(w, chunk) == [WriteHeader(w, 200) EXCEPT !.Body = Append(@, chunk)]

\* w.Header().Set(name, value)
SetHeader(w, name, value) == [w EXCEPT !.Header = MapPut(@, name, value)]

\* http.Error(w, msg, code)
HttpError(w, msg, code) ==
    LET w1 == SetHeader(w, "Content-Type", "text/plain; charset=utf-8")
        w2 == SetHeader(w1, "X-Content-Type-Options", "nosniff")
    IN  WriteBody(WriteHeader(w2, code), [text |-> msg \o "\n"])

\* the handlers and the calls counted in served[v]
Handlers ==
    {"Cors", "next", "HealthHandler", "ParseHandler", "NotFound", "Redirect",
     "BadRequest"}

Enter(v, h) == [served EXCEPT ![v][h] = @ + 1]

\* CORS_ALLOWED_ORIGIN is not set
allowedOrigin == "*"

\* next is called for OPTIONS requests too, after the 204 was written
CorsAlwaysNext(v) ==
    /\ pc[v] = "Cors"
    /\ LET w1 == SetHeader(resp[v], "Access-Control-Allow-Origin", allowedOrigin)
           w2 == SetHeader(w1, "Access-Control-Allow-Methods",
                           "GET, POST, PUT, DELETE, OPTIONS")
           w3 == SetHeader(w2, "Access-Control-Allow-Headers",
                           "Content-Type, Authorization")
           w4 == SetHeader(w3, "Access-Control-Max-Age", "3600")
       IN  /\ resp' = [resp EXCEPT ![v] =
                  IF req[v].Method = "OPTIONS" THEN WriteHeader(w4, 204) ELSE w4]
           /\ served' = [served EXCEPT ![v]["Cors"] = @ + 1, ![v]["next"] = @ + 1]
           /\ pc' = [pc EXCEPT ![v] = "mux"]
    /\ UNCHANGED <<data, state, err, ri, ii, graph, nodeMap, origin, call, ret, req>>

\* the handler Cors(next) returns, next being main's mux
Cors(v) ==
    /\ pc[v] = "Cors"
    /\ LET w1 == SetHeader(resp[v], "Access-Control-Allow-Origin", allowedOrigin)
           w2 == SetHeader(w1, "Access-Control-Allow-Methods",
                           "GET, POST, PUT, DELETE, OPTIONS")
           w3 == SetHeader(w2, "Access-Control-Allow-Headers",
                           "Content-Type, Authorization")
           w4 == SetHeader(w3, "Access-Control-Max-Age", "3600")
       IN  IF req[v].Method = "OPTIONS"
           THEN /\ resp' = [resp EXCEPT ![v] = WriteHeader(w4, 204)]
                /\ served' = Enter(v, "Cors")
                /\ pc' = [pc EXCEPT ![v] = "responded"]
           ELSE /\ resp' = [resp EXCEPT ![v] = w4]
                /\ served' = [served EXCEPT ![v]["Cors"] = @ + 1, ![v]["next"] = @ + 1]
                /\ pc' = [pc EXCEPT ![v] = "mux"]
    /\ UNCHANGED <<data, state, err, ri, ii, graph, nodeMap, origin, call, ret, req>>

\* path.Clean on a rooted path: empty and "." segments are dropped, ".."
\* drops the segment before it (none at the root)
RECURSIVE CleanSegments(_, _)
CleanSegments(segments, kept) ==
    IF segments = <<>> THEN kept
    ELSE LET seg == Head(segments)
         IN  IF seg = "" \/ seg = "."
             THEN CleanSegments(Tail(segments), kept)
             ELSE IF seg = ".."
             THEN CleanSegments(Tail(segments),
                                IF kept = <<>> THEN kept
                                ELSE SubSeq(kept, 1, Len(kept) - 1))
             ELSE CleanSegments(Tail(segments), Append(kept, seg))

\* net/http cleanPath: the canonical form of a request path; a trailing
\* slash is kept
cleanPath(p) ==
    IF p = "" THEN "/"
    ELSE LET rooted == IF HasPrefix(p, "/") THEN p ELSE "/" \o p
             np     == "/" \o Join(CleanSegments(Split(rooted, "/"), <<>>), "/")
         IN  IF HasSuffix(rooted, "/") /\ np # "/" THEN np \o "/" ELSE np

\* r.URL.RawQuery, of which the model keeps whether it asks for pretty output
RawQuery(r) == IF r.Pretty THEN "pretty=true" ELSE ""

\* http.StatusText
StatusText(code) ==
    CASE code = 301 -> "Moved Permanently"
      [] code = 302 -> "Found"
      [] code = 307 -> "Temporary Redirect"
      [] code = 308 -> "Permanent Redirect"

\* http.Redirect for a url that is a rooted path with an optional query:
\* the path is cleaned (a trailing slash is kept) and the query put back;
\* Location is set; unless the response already has a Content-Type, a GET
\* or HEAD request gets Content-Type text/html and a GET request a short
\* HTML body. The url holds no character that hexEscapeNonASCII or
\* htmlEscape would change.
Redirect(w, r, url, code) ==
    LET q      == Index(url, "?")
        upath  == IF q = 0 THEN url ELSE SubSeq(url, 1, q - 1)
        query  == IF q = 0 THEN "" ELSE SubSeq(url, q, Len(url))
        clean  == "/" \o Join(CleanSegments(Split(upath, "/"), <<>>), "/")
        target == (IF HasSuffix(upath, "/") /\ ~HasSuffix(clean, "/")
                   THEN clean \o "/" ELSE clean) \o query
        hadCT  == "Content-Type" \in DOMAIN w.Header
        w1     == SetHeader(w, "Location", target)
        w2     == IF ~hadCT /\ r.Method \in {"GET", "HEAD"}
                  THEN SetHeader(w1, "Content-Type", "text/html; charset=utf-8")
                  ELSE w1
        w3     == WriteHeader(w2, code)
    IN  IF ~hadCT /\ r.Method = "GET"
        THEN WriteBody(w3, [text |-> "<a href=\"" \o target \o "\">"
                                         \o StatusText(code) \o "</a>.\n" \o "\n"])
        ELSE w3

\* r.ProtoAtLeast(1, 1): the requests are HTTP/1.1 requests
ProtoAtLeast11(r) == TRUE

\* mux.ServeHTTP. The request `*` (req.Path = "*" stands for RequestURI "*")
\* is answered 400. Otherwise the path is matched: as it is for a CONNECT
\* request, cleaned for any other method, and then a path that is not in
\* canonical form is redirected to its canonical form; a path that is in
\* canonical form gets the handler registered for it, or http.NotFound.
\* (The patterns name no method and no host, and none ends in a slash.)
MuxServeHTTP(v) ==
    /\ pc[v] = "mux"
    /\ LET escapedPath == req[v].Path
           path == IF req[v].Method = "CONNECT" THEN escapedPath
                   ELSE cleanPath(escapedPath)
           url  == IF RawQuery(req[v]) = "" THEN path ELSE path \o "?" \o RawQuery(req[v])
       IN  IF req[v].Path = "*"
           THEN /\ resp' = [resp EXCEPT ![v] =
                       WriteHeader(IF ProtoAtLeast11(req[v])
                                   THEN SetHeader(@, "Connection", "close") ELSE @,
                                   400)]
                /\ served' = Enter(v, "BadRequest")
                /\ pc' = [pc EXCEPT ![v] = "responded"]
           ELSE IF path # escapedPath
           THEN /\ resp' = [resp EXCEPT ![v] = Redirect(@, req[v], url, 301)]
                /\ served' = Enter(v, "Redirect")
                /\ pc' = [pc EXCEPT ![v] = "responded"]
           ELSE IF path = "/health"
           THEN pc' = [pc EXCEPT ![v] = "HealthHandler"] /\ UNCHANGED <<resp, served>>
           ELSE IF path = "/parse"
           THEN pc' = [pc EXCEPT ![v] = "ParseHandler"] /\ UNCHANGED <<resp, served>>
           ELSE /\ resp' = [resp EXCEPT ![v] = HttpError(@, "404 page not found", 404)]
                /\ served' = Enter(v, "NotFound")
                /\ pc' = [pc EXCEPT ![v] = "responded"]
    /\ UNCHANGED <<data, state, err, ri, ii, graph, nodeMap, origin, call, ret, req>>

\* HealthHandler (the timestamp, uptime and details of the body are left out)
HealthHandler(v) ==
    /\ pc[v] = "HealthHandler"
    /\ resp' = [resp EXCEPT ![v] =
           IF req[v].Method # "GET"
           THEN HttpError(@, "Method not allowed", 405)
           ELSE WriteBody(WriteHeader(SetHeader(@, "Content-Type", "application/json"), 200),
                          [status |-> "healthy", service |-> "terrascope-api"])]
    /\ served' = Enter(v, "HealthHandler")
    /\ pc' = [pc EXCEPT ![v] = "responded"]
    /\ UNCHANGED <<data, state, err, ri, ii, graph, nodeMap, origin, call, ret, req>>

\* PUT is let through like POST
ParseHandlerAllowsPut(v) ==
    /\ pc[v] = "ParseHandler"
    /\ served' = Enter(v, "ParseHandler")
    /\ IF req[v].Method \notin {"POST", "PUT"}
       THEN /\ resp' = [resp EXCEPT ![v] = HttpError(@, "Method not allowed", 405)]
            /\ pc' = [pc EXCEPT ![v] = "responded"]
       ELSE /\ pc' = [pc EXCEPT ![v] = "read"]
            /\ UNCHANGED resp
    /\ UNCHANGED <<data, state, err, ri, ii, graph, nodeMap, origin, call, ret, req>>

\* ParseHandler, up to the method check
ParseHandler(v) ==
    /\ pc[v] = "ParseHandler"
    /\ served' = Enter(v, "ParseHandler")
    /\ IF req[v].Method # "POST"
       THEN /\ resp' = [resp EXCEPT ![v] = HttpError(@, "Method not allowed", 405)]
            /\ pc' = [pc EXCEPT ![v] = "responded"]
       ELSE /\ pc' = [pc EXCEPT ![v] = "read"]
            /\ UNCHANGED resp
    /\ UNCHANGED <<data, state, err, ri, ii, graph, nodeMap, origin, call, ret, req>>

\* body, err := io.ReadAll(r.Body); the deferred Close is registered only
\* when the read succeeded
ParseHandlerReadAll(v) ==
    /\ pc[v] = "read"
    /\ req' = [req EXCEPT ![v].Body.read = TRUE]
    /\ IF req[v].Body.fails
       THEN /\ resp' = [resp EXCEPT ![v] = HttpError(@, "Failed to read body", 400)]
            /\ pc' = [pc EXCEPT ![v] = "responded"]
            /\ UNCHANGED data
       ELSE /\ data' = [data EXCEPT ![v] = req[v].Body.bytes]
            /\ pc' = [pc EXCEPT ![v] = "start"]
            /\ UNCHANGED resp
    /\ UNCHANGED <<state, err, ri, ii, graph, nodeMap, origin, call, ret, served>>

\* a failed decode is answered with an empty graph
ParseHandlerInvalidPartial(v) ==
    /\ pc[v] = "failed"
    /\ graph' = [graph EXCEPT ![v] = <<[Nodes |-> <<>>, Edges |-> <<>>, Stats |-> <<>>]>>]
    /\ resp' = [resp EXCEPT ![v] =
           WriteBody(SetHeader(@, "Content-Type", "application/json"),
                     [json |-> graph'[v][1], indent |-> req[v].Pretty])]
    /\ req' = [req EXCEPT ![v].Body.closed = TRUE]
    /\ pc' = [pc EXCEPT ![v] = "responded"]
    /\ UNCHANGED <<data, state, err, ri, ii, nodeMap, origin, call, ret, served>>

\* ParseTfstate returned an error: 400, and the deferred Close runs
ParseHandlerInvalid(v) ==
    /\ pc[v] = "failed"
    /\ resp' = [resp EXCEPT ![v] = HttpError(@, "Invalid tfstate: " \o err[v], 400)]
    /\ req' = [req EXCEPT ![v].Body.closed = TRUE]
    /\ pc' = [pc EXCEPT ![v] = "responded"]
    /\ UNCHANGED <<data, state, err, ri, ii, graph, nodeMap, origin, call, ret, served>>

\* BuildGraph returned: the graph is encoded, and the deferred Close runs
ParseHandlerEncode(v) ==
    /\ pc[v] = "done"
    /\ resp' = [resp EXCEPT ![v] =
           WriteBody(SetHeader(@, "Content-Type", "application/json"),
                     [json |-> graph[v][1], indent |-> req[v].Pretty])]
    /\ req' = [req EXCEPT ![v].Body.closed = TRUE]
    /\ pc' = [pc EXCEPT ![v] = "responded"]
    /\ UNCHANGED <<data, state, err, ri, ii, graph, nodeMap, origin, call, ret, served>>

\* a direct call of ParseHandler, as the package's tests make it
NextHandler ==
    \E v \in Invocations :
        \/ ParseHandler(v)
        \/ ParseHandlerReadAll(v)
        \/ ParseTfstateCall(v)
        \/ ParseHandlerInvalid(v)
        \/ BuildGraphEnter(v)
        \/ BuildGraphInstance(v)
        \/ BuildGraphNextResource(v)
        \/ BuildGraphReturn(v)
        \/ ParseHandlerEncode(v)

\* a request to the server main starts
NextServer ==
    \E v \in Invocations :
        \/ Cors(v)
        \/ MuxServeHTTP(v)
        \/ HealthHandler(v)
        \/ ParseHandler(v)
        \/ ParseHandlerReadAll(v)
        \/ ParseTfstateCall(v)
        \/ ParseHandlerInvalid(v)
        \/ BuildGraphEnter(v)
        \/ BuildGraphInstance(v)
        \/ BuildGraphNextResource(v)
        \/ BuildGraphReturn(v)
        \/ ParseHandlerEncode(v)

Methods == {"GET", "HEAD", "POST", "PUT", "DELETE", "OPTIONS", "CONNECT"}

Paths ==
    {"/parse", "/health", "/nonexistent", "/parse/",
     "//health", "/parse/../health", "/./parse", "*"}

\* a request whose body holds the payload d; reading it fails when fails
Request(method, path, d, fails, pretty) ==
    [Method |-> method, Path |-> path, Pretty |-> pretty,
     Body |-> [bytes |-> d, fails |-> fails, read |-> FALSE, closed |-> FALSE]]

\* the invocations of reqs serve their requests from `entry`; the others
\* serve nothing
InitHTTP(reqs, entry) ==
    /\ data = [v \in Invocations |-> EmptyPayload]
    /\ pc = [v \in Invocations |-> IF v \in DOMAIN reqs THEN entry ELSE "idle"]
    /\ state = [v \in Invocations |-> NoState]
    /\ err = [v \in Invocations |-> ErrNil]
    /\ ri = [v \in Invocations |-> 0]
    /\ ii = [v \in Invocations |-> 0]
    /\ graph = [v \in Invocations |-> NoGraph]
    /\ nodeMap = [v \in Invocations |-> {}]
    /\ origin = [v \in Invocations |-> <<>>]
    /\ call = NoCall
    /\ ret = <<>>
    /\ req = [v \in Invocations |-> IF v \in DOMAIN reqs THEN reqs[v] ELSE NoRequest]
    /\ resp = [v \in Invocations |-> IF v \in DOMAIN reqs THEN NewRecorder ELSE NoResponse]
    /\ served = [v \in Invocations |->
                    IF v \in DOMAIN reqs THEN [h \in Handlers |-> 0] ELSE <<>>]

\* ParseHandler called with a request of any method; the body is a payload
\* ParseTfstate rejects or a document of the termination family
HandlerRequests ==
    {Request(m, "/parse", d, f, p) :
        m \in Methods, d \in ParsePayloads \cup TermPayloads,
        f \in BOOLEAN, p \in BOOLEAN}

InitHandler == \E r \in HandlerRequests : InitHTTP([v \in {"run1"} |-> r], "ParseHandler")

SpecHandler == InitHandler /\ [][NextHandler]_vars

\* requests to the server: every method on every path
ServerBodies ==
    {EmptyPayload, GarbagePayload, PayloadOf([version |-> 4]),
     PayloadOf(StateDoc(<<>>)),
     PayloadOf(StateDoc(<<MapPut(HeadVpcData, "instances", <<InstPlain, InstKeyed>>)>>))}

ServerRequests ==
    \* `OPTIONS *` is answered by the server and never handed to the handler
    ({Request(m, path, d, f, FALSE) :
         m \in Methods, path \in Paths, d \in ServerBodies, f \in BOOLEAN}
     \cup {Request("GET", "//health", EmptyPayload, FALSE, TRUE)})
    \ {Request("OPTIONS", "*", d, f, FALSE) : d \in ServerBodies, f \in BOOLEAN}

InitServer == \E r \in ServerRequests : InitHTTP([v \in {"run1"} |-> r], "Cors")

SpecServer == InitServer /\ [][NextServer]_vars

\* concurrent POST /parse requests: each invocation serves its own request,
\* and their steps interleave freely; the documents are made of two
\* resources that compute the same identifier
ConcurrentPool ==
    {MapPut(HeadVpc, "instances", <<InstPlain>>),
     MapPut(HeadVpcData, "instances", <<InstPlain>>)}

ConcurrentBodies ==
    {EmptyPayload, GarbagePayload}
    \cup {PayloadOf(StateDoc(rs)) : rs \in SeqsUpTo(ConcurrentPool, MaxResources)}

InitConcurrent ==
    \E b \in [Invocations -> ConcurrentBodies] :
        InitHTTP([v \in Invocations |-> Request("POST", "/parse", b[v], FALSE, FALSE)],
                 "ParseHandler")

SpecConcurrent == InitConcurrent /\ [][NextHandler]_vars

---------------------------------------------------------------------------
(* Direct calls of the helper functions, as the package's tests make them. *)

CallBuildNodeID ==
    /\ call.fn = "buildNodeID"
    /\ ret = <<>>
    /\ ret' = <<buildNodeID(call.res, call.instance, call.instanceIndex)>>
    /\ UNCHANGED <<data, pc, state, err, ri, ii, graph, nodeMap, origin, call, http>>

CallExtractProviderName ==
    /\ call.fn = "extractProviderName"
    /\ ret = <<>>
    /\ ret' = <<extractProviderName(call.providerString)>>
    /\ UNCHANGED <<data, pc, state, err, ri, ii, graph, nodeMap, origin, call, http>>

NextHelpers == CallBuildNodeID \/ CallExtractProviderName

MaxInstances == 2

MaxSegments == 3

\* index keys: absent, numbers and strings as decoded from JSON, and the
\* pointers Go callers pass (to an int, to a string, and a nil *int)
IndexKeys ==
    {AnyNil, Float64(0), Float64(1), Str("frontend"), Str("1"),
     Ptr(<<IntVal(1)>>), Ptr(<<Str("backend")>>), Ptr(<<>>)}

\* numbers that %v prints in exponent form or with a decimal point, and
\* their neighbours that it does not
WideKeys ==
    {Float64(1000000), Float64(1250000), Float64(999999),
     Float64Dec(15, 1), Float64Dec(1, 5), Float64Dec(25, 5),
     Ptr(<<IntVal(1000000)>>)}

\* the index keys of the instances of the resources handed to buildNodeID
KeyLists ==
    SeqsUpTo(IndexKeys, MaxInstances)
    \cup UNION {{<<k>>, <<AnyNil, k>>, <<k, AnyNil>>} : k \in WideKeys}

KeyedInstance(key) ==
    [SchemaVersion |-> 0, Attributes |-> <<>>, AttributesFlat |-> <<>>,
     Private |-> "", Dependencies |-> <<>>, IndexKey |-> key]

ModulePaths == {"", "module.app", "module.app.module.compute"}

\* buildNodeID(res, res.Instances[i], i) for each position i of each resource
NodeIDCalls ==
    UNION {{[fn |-> "buildNodeID",
             res |-> [Mode |-> "managed", Type |-> "aws_subnet", Name |-> "private",
                      Provider |-> AwsProvider, Module |-> m,
                      Instances |-> [k \in 1..Len(keys) |-> KeyedInstance(keys[k])],
                      DependsOn |-> <<>>],
             instance |-> KeyedInstance(keys[i]),
             instanceIndex |-> i - 1] :
                m \in ModulePaths, i \in 1..Len(keys)} :
              keys \in KeyLists}

ProviderSegments == {"", "aws", "hashicorp"}

ProviderStrings ==
    {pre \o Join(segs, "/") \o suf :
        pre \in {"", ProviderPrefix, "provider["},
        segs \in SeqsUpTo(ProviderSegments, MaxSegments),
        suf \in {"", ProviderSuffix, "]"}}
    \cup {AwsProvider, "provider[\"aws\"]"}

ProviderCalls == {[fn |-> "extractProviderName", providerString |-> p] : p \in ProviderStrings}

InitHelpers ==
    /\ data = [v \in Invocations |-> EmptyPayload]
    /\ pc = [v \in Invocations |-> "idle"]
    /\ state = [v \in Invocations |-> NoState]
    /\ err = [v \in Invocations |-> ErrNil]
    /\ ri = [v \in Invocations |-> 0]
    /\ ii = [v \in Invocations |-> 0]
    /\ graph = [v \in Invocations |-> NoGraph]
    /\ nodeMap = [v \in Invocations |-> {}]
    /\ origin = [v \in Invocations |-> <<>>]
    /\ call \in NodeIDCalls \cup ProviderCalls
    /\ ret = <<>>
    /\ NoHTTP

SpecHelpers == InitHelpers /\ [][NextHelpers]_vars

---------------------------------------------------------------------------
(* Properties                                                              *)

\* the graph invocation v holds (empty before BuildGraph has allocated it)
NodesOf(v) == IF graph[v] = NoGraph THEN <<>> ELSE graph[v][1].Nodes

EdgesFrom(v) == IF graph[v] = NoGraph THEN <<>> ELSE graph[v][1].Edges

\* BuildGraph has returned in invocation v
Returned(v) == pc[v] = "done"

\* ParseTfstate has returned in invocation v
Parsed(v) == pc[v] \notin {"idle", "start"}

\* the (resource, instance) positions of a decoded state
PairsOf(st) ==
    UNION {{<<r, i>> : i \in 1..Len(st.Resources[r].Instances)} :
              r \in 1..Len(st.Resources)}

\* the identifier BuildGraph computes for the pair p of state st
PairID(st, p) ==
    buildNodeID(st.Resources[p[1]], st.Resources[p[1]].Instances[p[2]], p[2] - 1)

\* C1: in every graph returned by BuildGraph (and in every graph under
\* construction) no two nodes have the same identifier, and every identifier
\* computed by some (resource, instance) pair of the input is the identifier
\* of exactly one node of the returned graph.
C1_UniqueNodeIDs ==
    \A v \in Invocations :
        /\ \A a, b \in 1..Len(NodesOf(v)) :
               a # b => NodesOf(v)[a].ID # NodesOf(v)[b].ID
        /\ Returned(v) =>
               \A p \in PairsOf(state[v][1]) :
                   Cardinality({k \in 1..Len(NodesOf(v)) :
                                   NodesOf(v)[k].ID = PairID(state[v][1], p)}) = 1

\* C1 witness: BuildGraph returned on an input in which two different pairs
\* compute the same identifier.
C1_Witness ==
    \E v \in Invocations :
        /\ Returned(v)
        /\ \E p, q \in PairsOf(state[v][1]) :
               p # q /\ PairID(state[v][1], p) = PairID(state[v][1], q)

\* the document of payload d has member k with a value other than zero
HasNonZero(d, k, zero) == k \in DOMAIN d.doc[1] /\ d.doc[1][k] # zero

\* C4: ParseTfstate answers each rejected payload with the matching error:
\* empty payload, malformed document, version absent or 0, terraform_version
\* absent or empty (version being non-zero).
C4_ParseErrors ==
    \A v \in Invocations :
        Parsed(v) =>
            LET d == data[v]
            IN  /\ d.empty => err[v] = ErrEmpty
                /\ (~d.empty /\ d.doc = <<>>) => err[v] = ErrUnmarshal
                /\ (~d.empty /\ d.doc # <<>> /\ ~HasNonZero(d, "version", 0))
                       => err[v] = ErrMissingVersion
                /\ (~d.empty /\ d.doc # <<>> /\ HasNonZero(d, "version", 0)
                       /\ ~HasNonZero(d, "terraform_version", ""))
                       => err[v] = ErrMissingTerraformVersion

\* C4 witness: a well-formed document without a version member was rejected.
C4_Witness ==
    \E v \in Invocations :
        /\ Parsed(v)
        /\ ~data[v].empty /\ data[v].doc # <<>>
        /\ "version" \notin DOMAIN data[v].doc[1]
        /\ err[v] = ErrMissingVersion

\* C5: ParseTfstate returns exactly one of (state, error); it returns a state
\* iff the payload is non-empty, well-formed, with version # 0 and a non-empty
\* terraform_version; a returned state has version # 0 and terraform_version # "".
C5_StateXorError ==
    \A v \in Invocations :
        Parsed(v) =>
            LET d == data[v]
            IN  /\ (state[v] # NoState) <=> (err[v] = ErrNil)
                /\ (state[v] # NoState) <=>
                       (~d.empty /\ d.doc # <<>> /\ HasNonZero(d, "version", 0)
                          /\ HasNonZero(d, "terraform_version", ""))
                /\ state[v] # NoState =>
                       state[v][1].Version # 0 /\ state[v][1].TerraformVersion # ""

\* C5 witness: a state (and no error) was returned for a document that has
\* no resources member.
C5_Witness ==
    \E v \in Invocations :
        /\ Parsed(v)
        /\ state[v] # NoState /\ err[v] = ErrNil
        /\ "resources" \notin DOMAIN data[v].doc[1]

\* C10: decode-then-build run twice on the same bytes ends the same way and,
\* when it returns graphs, they have the same node sequence, the same set of
\* edges and the same sequence of edge sources (only edges that share a source
\* may be ordered differently).
C10_RerunSameGraph ==
    (Finished("run1") /\ Finished("run2") /\ data["run1"] = data["run2"]) =>
        /\ pc["run1"] = pc["run2"]
        /\ err["run1"] = err["run2"]
        /\ NodesOf("run1") = NodesOf("run2")
        /\ Range(EdgesFrom("run1")) = Range(EdgesFrom("run2"))
        /\ Len(EdgesFrom("run1")) = Len(EdgesFrom("run2"))
        /\ \A k \in 1..Len(EdgesFrom("run1")) :
               EdgesFrom("run1")[k].Source = EdgesFrom("run2")[k].Source

\* C10 witness: both runs returned, and their edge sequences differ in order.
C10_Witness ==
    /\ Returned("run1") /\ Returned("run2")
    /\ data["run1"] = data["run2"]
    /\ EdgesFrom("run1") # EdgesFrom("run2")

\* the resource and the instance that produced node k of invocation v
ResourceOfNode(v, k) == state[v][1].Resources[origin[v][k][1]]

InstanceOfNode(v, k) == ResourceOfNode(v, k).Instances[origin[v][k][2]]

\* the positions in the edge sequence of the edges from source to target
EdgePositions(v, source, target) ==
    {e \in 1..Len(EdgesFrom(v)) :
        EdgesFrom(v)[e].Source = source /\ EdgesFrom(v)[e].Target = target}

\* C2: for every emitted node, a target that occurs both in the resource's
\* depends_on list and in the instance's dependencies list has exactly one
\* edge from that node, of kind "depends_on".
C2_ExplicitWins ==
    \A v \in Invocations :
        \A k \in 1..Len(NodesOf(v)) :
            \A t \in Range(ResourceOfNode(v, k).DependsOn)
                       \cap Range(InstanceOfNode(v, k).Dependencies) :
                LET es == EdgePositions(v, NodesOf(v)[k].ID, t)
                IN  /\ Cardinality(es) = 1
                    /\ \A e \in es : EdgesFrom(v)[e].Type = "depends_on"

\* C2 witness: a node was emitted whose resource names a target explicitly
\* after another one, while its instance names the same target first and twice.
C2_Witness ==
    \E v \in Invocations :
        \E k \in 1..Len(NodesOf(v)) :
            /\ ResourceOfNode(v, k).DependsOn = <<"aws_subnet.a", "aws_vpc.main">>
            /\ InstanceOfNode(v, k).Dependencies = <<"aws_vpc.main", "aws_vpc.main">>

\* C3: every edge has kind "depends_on" or "implicit"; it is "depends_on" iff
\* its target occurs in the depends_on list of the resource that produced the
\* source node, and "implicit" iff the target occurs only in the dependencies
\* list of the instance that produced the source node.
C3_EdgeKinds ==
    \A v \in Invocations :
        \A e \in 1..Len(EdgesFrom(v)) :
            LET edge == EdgesFrom(v)[e]
            IN  /\ edge.Type \in {"depends_on", "implicit"}
                /\ \E k \in 1..Len(NodesOf(v)) : NodesOf(v)[k].ID = edge.Source
                /\ \A k \in 1..Len(NodesOf(v)) :
                       NodesOf(v)[k].ID = edge.Source =>
                           LET explicit == Range(ResourceOfNode(v, k).DependsOn)
                               implicit == Range(InstanceOfNode(v, k).Dependencies)
                           IN  /\ edge.Type = "depends_on" <=> edge.Target \in explicit
                               /\ edge.Type = "implicit" <=>
                                      (edge.Target \in implicit /\ edge.Target \notin explicit)

\* C3 witness: one node has an edge of each kind.
C3_Witness ==
    \E v \in Invocations :
        \E e, f \in 1..Len(EdgesFrom(v)) :
            /\ EdgesFrom(v)[e].Source = EdgesFrom(v)[f].Source
            /\ EdgesFrom(v)[e].Type = "depends_on"
            /\ EdgesFrom(v)[f].Type = "implicit"

\* "<module>.<type>.<name>", or "<type>.<name>" when the module path is empty
BaseIdentifier(res) ==
    IF res.Module = ""
    THEN res.Type \o "." \o res.Name
    ELSE res.Module \o "." \o res.Type \o "." \o res.Name

NodeIDReturned == call.fn = "buildNodeID" /\ ret # <<>>

\* C6: for a resource with exactly one instance buildNodeID returns
\* "<type>.<name>", or "<module>.<type>.<name>" when the module path is not
\* empty, with no bracketed segment, whether or not the instance has an index key.
C6_SingleInstanceID ==
    (NodeIDReturned /\ Len(call.res.Instances) = 1) =>
        ret[1] = BaseIdentifier(call.res)

\* C6 witness: buildNodeID returned for the only instance of a resource in a
\* module, the instance carrying an index key.
C6_Witness ==
    /\ NodeIDReturned
    /\ Len(call.res.Instances) = 1
    /\ call.res.Module # ""
    /\ call.instance.IndexKey # AnyNil

\* the text of each index key of IndexKeys, as Go prints it
KeyText(key) ==
    CASE key = Float64(0)               -> "0"
      [] key = Float64(1)               -> "1"
      [] key = Str("frontend")          -> "frontend"
      [] key = Str("1")                 -> "1"
      [] key = Ptr(<<IntVal(1)>>)       -> "1"
      [] key = Ptr(<<Str("backend")>>)  -> "backend"
      [] key = Ptr(<<>>)                -> "<nil>"
      [] key = Float64(1000000)         -> "1e+06"
      [] key = Float64(1250000)         -> "1.25e+06"
      [] key = Float64(999999)          -> "999999"
      [] key = Float64Dec(15, 1)        -> "1.5"
      [] key = Float64Dec(1, 5)         -> "1e-05"
      [] key = Float64Dec(25, 5)        -> "0.00025"
      [] key = Ptr(<<IntVal(1000000)>>) -> "1000000"

\* C7: for a resource with more than one instance buildNodeID returns the
\* single-instance identifier followed by ".[k]", k being the text of the
\* instance's index key when it has one (a pointer dereferenced once) and the
\* zero-based position of the instance otherwise.
C7_MultiInstanceID ==
    (NodeIDReturned /\ Len(call.res.Instances) > 1) =>
        ret[1] = BaseIdentifier(call.res) \o ".["
                 \o (IF call.instance.IndexKey # AnyNil
                     THEN KeyText(call.instance.IndexKey)
                     ELSE ToString(call.instanceIndex))
                 \o "]"

\* C7 witness: buildNodeID returned for the second instance, which has a
\* pointer as index key, of a resource whose first instance has no key.
C7_Witness ==
    /\ NodeIDReturned
    /\ Len(call.res.Instances) > 1
    /\ call.instanceIndex = 1
    /\ call.instance.IndexKey = Ptr(<<Str("backend")>>)
    /\ call.res.Instances[1].IndexKey = AnyNil

\* s with a leading ProviderPrefix removed, then a trailing ProviderSuffix
Stripped(s) ==
    LET from == IF HasPrefix(s, ProviderPrefix) THEN Len(ProviderPrefix) + 1 ELSE 1
        rest == SubSeq(s, from, Len(s))
        to   == IF HasSuffix(rest, ProviderSuffix)
                THEN Len(rest) - Len(ProviderSuffix)
                ELSE Len(rest)
    IN  SubSeq(rest, 1, to)

\* C8: extractProviderName returns the last '/'-separated segment of its
\* argument without a leading `provider["` and a trailing `"]`; an argument
\* with neither of them and without '/' is returned unchanged.
C8_ProviderName ==
    (call.fn = "extractProviderName" /\ ret # <<>>) =>
        LET p == call.providerString
            s == Stripped(p)
        IN  /\ Index(ret[1], "/") = 0
            /\ ret[1] = s \/ HasSuffix(s, "/" \o ret[1])
            /\ (~HasPrefix(p, ProviderPrefix) /\ ~HasSuffix(p, ProviderSuffix)
                  /\ Index(p, "/") = 0) => ret[1] = p

\* C8 witness: extractProviderName returned for the registry form of a provider.
C8_Witness ==
    /\ call.fn = "extractProviderName"
    /\ call.providerString = AwsProvider
    /\ ret = <<"aws">>

MetadataKeys == {"id", "name", "arn", "tags", "mode", "index_key"}

\* C9: the metadata keys of every node are among id, name, arn, tags, mode
\* and index_key, whatever the instance's attributes contain.
C9_MetadataAllowList ==
    \A v \in Invocations :
        \A k \in 1..Len(NodesOf(v)) :
            DOMAIN NodesOf(v)[k].Metadata \subseteq MetadataKeys

\* C9 witness: a node was emitted for an instance whose attributes hold
\* "secret" besides every copied key.
C9_Witness ==
    \E v \in Invocations :
        /\ Returned(v)
        /\ \E k \in 1..Len(NodesOf(v)) :
               /\ AttrKeys \subseteq DOMAIN InstanceOfNode(v, k).Attributes
               /\ "secret" \notin DOMAIN NodesOf(v)[k].Metadata

\* the identifiers of the nodes of invocation v
NodeIDsOf(v) == {NodesOf(v)[k].ID : k \in 1..Len(NodesOf(v))}

\* C11: BuildGraph validates no reference: for every emitted node, every
\* target named in the resource's depends_on list or in the instance's
\* dependencies list has an edge from that node, whether or not any node of
\* the graph has the target as its identifier.
C11_NoReferenceValidation ==
    \A v \in Invocations :
        \A k \in 1..Len(NodesOf(v)) :
            \A t \in Range(ResourceOfNode(v, k).DependsOn)
                       \cup Range(InstanceOfNode(v, k).Dependencies) :
                EdgePositions(v, NodesOf(v)[k].ID, t) # {}

\* C11 witness: BuildGraph returned a graph holding an edge whose target is
\* the identifier of no node.
C11_Witness ==
    \E v \in Invocations :
        /\ Returned(v)
        /\ \E e \in 1..Len(EdgesFrom(v)) :
               EdgesFrom(v)[e].Target \notin NodeIDsOf(v)

\* C12: whenever BuildGraph returns for a state whose resource list is empty
\* (the resources member absent or an empty array), the graph is non-nil and
\* its node sequence and its edge sequence are both empty.
C12_EmptyStateEmptyGraph ==
    \A v \in Invocations :
        (Returned(v) /\ Len(state[v][1].Resources) = 0) =>
            /\ graph[v] # NoGraph
            /\ graph[v][1].Nodes = <<>>
            /\ graph[v][1].Edges = <<>>

\* C12 witness: BuildGraph returned for a document whose resources member is
\* an empty array.
C12_Witness ==
    \E v \in Invocations :
        /\ Returned(v)
        /\ "resources" \in DOMAIN data[v].doc[1]
        /\ data[v].doc[1].resources = <<>>
        /\ graph[v] # NoGraph

\* C13: once ParseTfstate has accepted a payload, BuildGraph is run to its
\* end: it returns, what it returns is a graph, and no error is set, also for
\* resources without instances and instances without attributes, dependency
\* lists or index key.
C13_BuildGraphTerminates ==
    \A v \in Invocations :
        (pc[v] = "parsed") ~> (Returned(v) /\ graph[v] # NoGraph /\ err[v] = ErrNil)

\* C13 witness: BuildGraph returned for a state that holds a resource without
\* instances and an instance without attributes, dependencies and index key.
C13_Witness ==
    \E v \in Invocations :
        /\ Returned(v)
        /\ \E r \in 1..Len(state[v][1].Resources) :
               state[v][1].Resources[r].Instances = <<>>
        /\ \E p \in PairsOf(state[v][1]) :
               LET instance == state[v][1].Resources[p[1]].Instances[p[2]]
               IN  /\ DOMAIN instance.Attributes = {}
                   /\ instance.Dependencies = <<>>
                   /\ instance.IndexKey = AnyNil
                   /\ state[v][1].Resources[p[1]].DependsOn = <<>>

\* pair p is traversed before pair q: resources in document order, instances
\* in document order within a resource
Before(p, q) == p[1] < q[1] \/ (p[1] = q[1] /\ p[2] < q[2])

\* the pairs of state st that compute the identifier id
PairsWithID(st, id) == {p \in PairsOf(st) : PairID(st, p) = id}

\* the first pair, in traversal order, that computes the identifier id
FirstPair(st, id) ==
    LET same == PairsWithID(st, id)
    IN  CHOOSE p \in same : \A q \in same : q = p \/ Before(p, q)

\* the dependency map of pair p of state st
DepsOfPair(st, p) ==
    collectDependencies(st.Resources[p[1]].DependsOn,
                        st.Resources[p[1]].Instances[p[2]].Dependencies)

\* the positions in the edge sequence of the edges from source
EdgePositionsFrom(v, source) ==
    {e \in 1..Len(EdgesFrom(v)) : EdgesFrom(v)[e].Source = source}

\* C18: a pair whose identifier was already emitted contributes no edge and
\* changes none: at every moment the edges from a node are exactly the
\* dependencies of the first pair that computes its identifier, one edge per
\* target, with that pair's kinds; targets named only by later pairs with the
\* same identifier have no edge.
C18_DuplicateAddsNoEdges ==
    \A v \in Invocations :
        \A k \in 1..Len(NodesOf(v)) :
            LET id   == NodesOf(v)[k].ID
                deps == DepsOfPair(state[v][1], FirstPair(state[v][1], id))
                es   == EdgePositionsFrom(v, id)
            IN  /\ Cardinality(es) = Cardinality(DOMAIN deps)
                /\ \A e \in es :
                       /\ EdgesFrom(v)[e].Target \in DOMAIN deps
                       /\ EdgesFrom(v)[e].Type = deps[EdgesFrom(v)[e].Target]

\* C18 witness: BuildGraph returned on an input in which a later pair with an
\* already emitted identifier names a target that the first pair does not.
C18_Witness ==
    \E v \in Invocations :
        /\ Returned(v)
        /\ \E p, q \in PairsOf(state[v][1]) :
               /\ Before(p, q)
               /\ PairID(state[v][1], p) = PairID(state[v][1], q)
               /\ p = FirstPair(state[v][1], PairID(state[v][1], p))
               /\ DOMAIN DepsOfPair(state[v][1], q)
                      \ DOMAIN DepsOfPair(state[v][1], p) # {}

\* the node BuildGraph makes of pair p of state st
NodeOfPair(st, p) ==
    LET res      == st.Resources[p[1]]
        instance == res.Instances[p[2]]
    IN  [ ID       |-> PairID(st, p),
          Type     |-> res.Type,
          Mode     |-> res.Mode,
          Provider |-> extractProviderName(res.Provider),
          Module   |-> res.Module,
          Metadata |-> buildMetadata(res, instance) ]

\* C19: at every moment each node carries the type, mode, normalized
\* provider, module path and metadata of the first pair, in document order,
\* that computes its identifier; no later pair with that identifier changes
\* a field of the node.
C19_FirstOccurrenceWins ==
    \A v \in Invocations :
        \A k \in 1..Len(NodesOf(v)) :
            NodesOf(v)[k] =
                NodeOfPair(state[v][1], FirstPair(state[v][1], NodesOf(v)[k].ID))

\* C19 witness: BuildGraph returned on an input in which two pairs compute
\* the same identifier and would make different nodes.
C19_Witness ==
    \E v \in Invocations :
        /\ Returned(v)
        /\ \E p, q \in PairsOf(state[v][1]) :
               /\ Before(p, q)
               /\ PairID(state[v][1], p) = PairID(state[v][1], q)
               /\ NodeOfPair(state[v][1], p).Mode # NodeOfPair(state[v][1], q).Mode
               /\ NodeOfPair(state[v][1], p).Metadata
                      # NodeOfPair(state[v][1], q).Metadata

\* C20: the node sequence is in first-seen order: of any two nodes, the one
\* whose identifier is first computed earlier in the traversal stands earlier
\* in the sequence.
C20_FirstSeenOrder ==
    \A v \in Invocations :
        LET first == [k \in 1..Len(NodesOf(v)) |->
                         FirstPair(state[v][1], NodesOf(v)[k].ID)]
        IN  \A a, b \in 1..Len(NodesOf(v)) : Before(first[a], first[b]) => a < b

\* C20 witness: BuildGraph returned three or more nodes, from more than one
\* resource, on an input in which some identifier is computed twice.
C20_Witness ==
    \E v \in Invocations :
        /\ Returned(v)
        /\ Len(NodesOf(v)) >= 3
        /\ \E a, b \in 1..Len(NodesOf(v)) : origin[v][a][1] # origin[v][b][1]
        /\ Cardinality(PairsOf(state[v][1])) > Len(NodesOf(v))

\* invocation v serves a request
Serving(v) == req[v] # NoRequest

\* invocation v has written its response and returned
Responded(v) == pc[v] = "responded"

\* C14: in ParseHandler a graph exists only after ParseTfstate returned a
\* state and no error; and when ParseTfstate returned an error (empty body,
\* malformed or binary bytes, a required field missing) the response is 400,
\* its only body is a message beginning "Invalid tfstate: " followed by the
\* error, and no graph was built or written.
C14_NoGraphFromFailedParse ==
    \A v \in Invocations :
        Serving(v) =>
            /\ graph[v] # NoGraph => (state[v] # NoState /\ err[v] = ErrNil)
            /\ pc[v] \in {"parsed", "build", "done"} =>
                   (state[v] # NoState /\ err[v] = ErrNil)
            /\ (Responded(v) /\ err[v] # ErrNil) =>
                   /\ resp[v].Code = 400
                   /\ Len(resp[v].Body) = 1
                   /\ DOMAIN resp[v].Body[1] = {"text"}
                   /\ HasPrefix(resp[v].Body[1].text, "Invalid tfstate: " \o err[v])
                   /\ graph[v] = NoGraph

\* C14 witness: a POST whose body is a document with a version and without
\* terraform_version was answered.
C14_Witness ==
    \E v \in Invocations :
        /\ Serving(v) /\ Responded(v)
        /\ req[v].Method = "POST"
        /\ req[v].Body.bytes.doc # <<>>
        /\ HasNonZero(req[v].Body.bytes, "version", 0)
        /\ err[v] = ErrMissingTerraformVersion
        /\ resp[v].Code = 400

\* C16: once ParseHandler was entered for a request whose method is not POST,
\* the response is 405 with the message "Method not allowed" and the handler
\* has returned; the request body was not read, and neither ParseTfstate nor
\* BuildGraph was invoked (no state, no error, no graph).
C16_MethodNotAllowed ==
    \A v \in Invocations :
        (Serving(v) /\ served[v]["ParseHandler"] > 0 /\ req[v].Method # "POST") =>
            /\ Responded(v)
            /\ resp[v].Code = 405
            /\ resp[v].Body = <<[text |-> "Method not allowed" \o "\n"]>>
            /\ ~req[v].Body.read
            /\ data[v] = EmptyPayload
            /\ state[v] = NoState /\ err[v] = ErrNil
            /\ graph[v] = NoGraph /\ nodeMap[v] = {}

\* C16 witness: ParseHandler answered a PUT whose body is a valid document.
C16_Witness ==
    \E v \in Invocations :
        /\ Serving(v) /\ Responded(v)
        /\ served[v]["ParseHandler"] = 1
        /\ req[v].Method = "PUT"
        /\ ParseTfstate(req[v].Body.bytes).err = ErrNil
        /\ resp[v].Code = 405

\* the handlers main registers on its mux, and the mux's own 404 handler
RouteHandlers == {"HealthHandler", "ParseHandler", "NotFound", "Redirect", "BadRequest"}

\* C17: once Cors has acted on a request: an OPTIONS request, whatever its
\* path, is answered 204 and Cors has returned without calling the wrapped
\* handler, so no route handler is ever entered and nothing of ParseHandler
\* runs; a request of any other method was passed to the wrapped handler
\* exactly once, and each route handler is entered at most once.
C17_CorsPreflight ==
    \A v \in Invocations :
        (Serving(v) /\ served[v]["Cors"] > 0) =>
            /\ served[v]["Cors"] = 1
            /\ req[v].Method = "OPTIONS" =>
                   /\ Responded(v)
                   /\ resp[v].Code = 204 /\ resp[v].Body = <<>>
                   /\ served[v]["next"] = 0
                   /\ \A h \in RouteHandlers : served[v][h] = 0
                   /\ ~req[v].Body.read /\ state[v] = NoState /\ graph[v] = NoGraph
            /\ req[v].Method # "OPTIONS" =>
                   /\ served[v]["next"] = 1
                   /\ \A h \in RouteHandlers : served[v][h] <= 1
                   /\ Responded(v) => \E h \in RouteHandlers : served[v][h] = 1

\* C17 witness: an OPTIONS request to /parse carrying a valid document was
\* answered.
C17_Witness ==
    \E v \in Invocations :
        /\ Serving(v) /\ Responded(v)
        /\ req[v].Method = "OPTIONS" /\ req[v].Path = "/parse"
        /\ ParseTfstate(req[v].Body.bytes).err = ErrNil
        /\ resp[v].Code = 204
        /\ "Access-Control-Allow-Origin" \in DOMAIN resp[v].Header

\* the pairs of state st that are the first to compute their identifier
FirstPairs(st) == {p \in PairsOf(st) : p = FirstPair(st, PairID(st, p))}

\* what BuildGraph returns for state st when nothing else runs: the nodes of
\* the first pairs in traversal order ...
AloneNodes(st) ==
    LET fp == FirstPairs(st)
    IN  [k \in 1..Cardinality(fp) |->
            NodeOfPair(st, CHOOSE p \in fp :
                               Cardinality({q \in fp : Before(q, p)}) = k - 1)]

\* ... and the edges of their dependency maps
AloneEdges(st) ==
    UNION {{[Source |-> PairID(st, p), Target |-> t, Type |-> DepsOfPair(st, p)[t]] :
               t \in DOMAIN DepsOfPair(st, p)} : p \in FirstPairs(st)}

\* the position in the node sequence of invocation v of the node called id
NodePosition(v, id) == CHOOSE k \in 1..Len(NodesOf(v)) : NodesOf(v)[k].ID = id

\* C15: with invocations interleaved step by step, each invocation ends as
\* it would alone: its error and state are ParseTfstate of its own body; a
\* rejected body gets 400 and no graph; an accepted one gets 200 with the
\* nodes, the edges (grouped by source in node order) and the seen
\* identifiers that its own state alone determines. At no moment does an
\* invocation hold a seen identifier, a node or an edge that is not of its
\* own state.
C15_ConcurrentIndependence ==
    \A v \in Invocations :
        LET alone == ParseTfstate(req[v].Body.bytes)
        IN  /\ Responded(v) =>
                   /\ err[v] = alone.err /\ state[v] = alone.state
                   /\ alone.err # ErrNil => (resp[v].Code = 400 /\ graph[v] = NoGraph)
                   /\ alone.err = ErrNil =>
                          /\ resp[v].Code = 200
                          /\ resp[v].Body = <<[json |-> graph[v][1], indent |-> FALSE]>>
                          /\ NodesOf(v) = AloneNodes(alone.state[1])
                          /\ Range(EdgesFrom(v)) = AloneEdges(alone.state[1])
                          /\ Len(EdgesFrom(v)) = Cardinality(AloneEdges(alone.state[1]))
                          /\ \A e, f \in 1..Len(EdgesFrom(v)) :
                                 e < f => NodePosition(v, EdgesFrom(v)[e].Source)
                                              <= NodePosition(v, EdgesFrom(v)[f].Source)
                          /\ nodeMap[v] = {n.ID : n \in Range(AloneNodes(alone.state[1]))}
            /\ graph[v] # NoGraph =>
                   /\ Range(NodesOf(v)) \subseteq Range(AloneNodes(alone.state[1]))
                   /\ Range(EdgesFrom(v)) \subseteq AloneEdges(alone.state[1])
                   /\ nodeMap[v] = NodeIDsOf(v)

\* C15 witness: two invocations are inside BuildGraph at the same time, on
\* different documents, each having already seen an identifier the other has
\* seen too.
C15_Witness ==
    /\ pc["run1"] = "build" /\ pc["run2"] = "build"
    /\ data["run1"] # data["run2"]
    /\ nodeMap["run1"] \cap nodeMap["run2"] # {}
    /\ NodesOf("run1") # NodesOf("run2")
    /\ ri["run1"] <= Len(state["run1"][1].Resources)
    /\ ri["run2"] <= Len(state["run2"][1].Resources)

\* the targets named by the pair that produced node k of invocation v
TargetsOfNode(v, k) ==
    Range(ResourceOfNode(v, k).DependsOn) \cup Range(InstanceOfNode(v, k).Dependencies)

\* C21: for every emitted node, the edges from it are exactly one edge per
\* distinct target of its resource's depends_on list and its instance's
\* dependencies list: as many edges as distinct targets, each target with one
\* edge, whatever the other instances of the resource name.
C21_OneEdgePerTarget ==
    \A v \in Invocations :
        \A k \in 1..Len(NodesOf(v)) :
            LET id == NodesOf(v)[k].ID
            IN  /\ Cardinality(EdgePositionsFrom(v, id)) = Cardinality(TargetsOfNode(v, k))
                /\ \A e \in EdgePositionsFrom(v, id) :
                       EdgesFrom(v)[e].Target \in TargetsOfNode(v, k)
                /\ \A t \in TargetsOfNode(v, k) :
                       Cardinality(EdgePositions(v, id, t)) = 1

\* C21 witness: BuildGraph returned two nodes of one resource whose
\* depends_on list repeats a target; both nodes have an edge to that target.
C21_Witness ==
    \E v \in Invocations :
        /\ Returned(v)
        /\ \E a, b \in 1..Len(NodesOf(v)) :
               /\ a # b
               /\ origin[v][a][1] = origin[v][b][1]
               /\ LET explicit == ResourceOfNode(v, a).DependsOn
                  IN  /\ Len(explicit) > Cardinality(Range(explicit))
                      /\ \E t \in Range(explicit) :
                             /\ EdgePositions(v, NodesOf(v)[a].ID, t) # {}
                             /\ EdgePositions(v, NodesOf(v)[b].ID, t) # {}

\* C22: the metadata of every node holds exactly: "mode", the resource mode;
\* "id", "name" and "arn" each iff the instance's attributes have that key,
\* with the attribute's value (nil included); "tags" iff the attribute tags
\* is present and is a map; "index_key" iff the instance's index key is not
\* nil, with the key; and nothing else.
C22_MetadataExact ==
    \A v \in Invocations :
        \A k \in 1..Len(NodesOf(v)) :
            LET md    == NodesOf(v)[k].Metadata
                attrs == InstanceOfNode(v, k).Attributes
                key   == InstanceOfNode(v, k).IndexKey
            IN  /\ DOMAIN md \subseteq MetadataKeys
                /\ "mode" \in DOMAIN md /\ md["mode"] = Str(ResourceOfNode(v, k).Mode)
                /\ \A a \in {"id", "name", "arn"} :
                       /\ a \in DOMAIN md <=> a \in DOMAIN attrs
                       /\ a \in DOMAIN md => md[a] = attrs[a]
                /\ "tags" \in DOMAIN md <=>
                       ("tags" \in DOMAIN attrs /\ attrs["tags"].kind = "map")
                /\ "tags" \in DOMAIN md => md["tags"] = attrs["tags"]
                /\ "index_key" \in DOMAIN md <=> key.kind # "nil"
                /\ "index_key" \in DOMAIN md => md["index_key"] = key

\* C22 witness: a node was emitted for the only instance of a resource; the
\* instance has an index key and a tags attribute that is not a map, the
\* identifier has no bracketed segment, and the metadata has index_key and
\* no tags.
C22_Witness ==
    \E v \in Invocations :
        /\ Returned(v)
        /\ \E k \in 1..Len(NodesOf(v)) :
               /\ Len(ResourceOfNode(v, k).Instances) = 1
               /\ InstanceOfNode(v, k).IndexKey.kind # "nil"
               /\ "tags" \in DOMAIN InstanceOfNode(v, k).Attributes
               /\ InstanceOfNode(v, k).Attributes["tags"].kind # "map"
               /\ Index(NodesOf(v)[k].ID, "[") = 0
               /\ "index_key" \in DOMAIN NodesOf(v)[k].Metadata
               /\ "tags" \notin DOMAIN NodesOf(v)[k].Metadata

\* C23: no step of BuildGraph changes the state it was called with: from
\* the call to the return, every resource, instance, attribute mapping and
\* dependency list of state[v] stays as ParseTfstate returned it.
C23_InputUnchanged ==
    [][\A v \in Invocations :
           pc[v] \in {"parsed", "build"} => state'[v] = state[v]]_vars

\* C23 witness: BuildGraph returned two nodes with edges, and the state still
\* is what ParseTfstate makes of the payload, dependency lists included.
C23_Witness ==
    \E v \in Invocations :
        /\ Returned(v)
        /\ Len(NodesOf(v)) = 2 /\ Len(EdgesFrom(v)) >= 2
        /\ state[v] = ParseTfstate(data[v]).state
        /\ state[v][1].Resources[1].DependsOn # <<>>
        /\ \A i \in 1..2 : state[v][1].Resources[1].Instances[i].Dependencies # <<>>
        /\ \A i \in 1..2 : DOMAIN state[v][1].Resources[1].Instances[i].Attributes # {}

\* C24: whenever ParseHandler has returned for a POST request, the request
\* body is closed, whatever the outcome was (the read failed, the decode
\* failed, or the graph was written).
C24_BodyClosed ==
    \A v \in Invocations :
        (Serving(v) /\ Responded(v) /\ served[v]["ParseHandler"] > 0
            /\ req[v].Method = "POST") => req[v].Body.closed

\* C24 witness: ParseHandler has returned for a POST request whose body could
\* not be read: the response is 400 "Failed to read body", and Close was not
\* called on the body.
C24_Witness ==
    \E v \in Invocations :
        /\ Serving(v) /\ Responded(v)
        /\ req[v].Method = "POST"
        /\ req[v].Body.fails /\ req[v].Body.read
        /\ resp[v].Code = 400
        /\ resp[v].Body = <<[text |-> "Failed to read body" \o "\n"]>>
        /\ ~req[v].Body.closed

\* C25: ParseTfstate reports the first check that fails, in the order empty
\* payload, JSON structure, version, terraform_version: a well-formed document
\* with neither a version nor a terraform_version is rejected with the
\* missing-version error and not with the missing-terraform_version error.
C25_FirstFailingCheck ==
    \A v \in Invocations :
        (Parsed(v) /\ ~data[v].empty /\ data[v].doc # <<>>
            /\ ~HasNonZero(data[v], "version", 0)
            /\ ~HasNonZero(data[v], "terraform_version", ""))
        => /\ err[v] = ErrMissingVersion
           /\ err[v] # ErrMissingTerraformVersion
           /\ state[v] = NoState

\* C25 witness: a document that has neither member was rejected with the
\* missing-version error.
C25_Witness ==
    \E v \in Invocations :
        /\ Parsed(v)
        /\ ~data[v].empty /\ data[v].doc # <<>>
        /\ "version" \notin DOMAIN data[v].doc[1]
        /\ "terraform_version" \notin DOMAIN data[v].doc[1]
        /\ err[v] = ErrMissingVersion

\* C26: in every graph BuildGraph holds or has returned, the source of every
\* edge is the identifier of a node of the graph, and the edges are grouped by
\* source in node order: an edge never comes before an edge whose source is
\* earlier in the node sequence.
C26_EdgesGroupedBySource ==
    \A v \in Invocations :
        graph[v] # NoGraph =>
            /\ \A e \in 1..Len(EdgesFrom(v)) : EdgesFrom(v)[e].Source \in NodeIDsOf(v)
            /\ \A e, f \in 1..Len(EdgesFrom(v)) :
                   NodePosition(v, EdgesFrom(v)[e].Source)
                       < NodePosition(v, EdgesFrom(v)[f].Source) => e < f

\* C26 witness: BuildGraph returned two nodes, the earlier with two edges and
\* the later with at least one, the edges of the earlier all coming first.
C26_Witness ==
    \E v \in Invocations :
        /\ Returned(v)
        /\ Len(NodesOf(v)) >= 2
        /\ Cardinality(EdgePositionsFrom(v, NodesOf(v)[1].ID)) = 2
        /\ EdgePositionsFrom(v, NodesOf(v)[2].ID) # {}
        /\ \A e \in EdgePositionsFrom(v, NodesOf(v)[1].ID),
              f \in EdgePositionsFrom(v, NodesOf(v)[2].ID) : e < f

\* C27: in every graph BuildGraph holds or has returned, no two edges have
\* the same source and the same target.
C27_NoRepeatedEdge ==
    \A v \in Invocations :
        \A e, f \in 1..Len(EdgesFrom(v)) :
            (EdgesFrom(v)[e].Source = EdgesFrom(v)[f].Source
                /\ EdgesFrom(v)[e].Target = EdgesFrom(v)[f].Target) => e = f

\* C27 witness: BuildGraph returned a node whose resource and instance name
\* the same target more than once between them (in depends_on, in
\* dependencies, or in both), and the graph has an edge from the node to it.
C27_Witness ==
    \E v \in Invocations :
        /\ Returned(v)
        /\ \E k \in 1..Len(NodesOf(v)) :
               LET named == ResourceOfNode(v, k).DependsOn
                                \o InstanceOfNode(v, k).Dependencies
               IN  \E a, b \in 1..Len(named) :
                       /\ a < b /\ named[a] = named[b]
                       /\ EdgePositions(v, NodesOf(v)[k].ID, named[a]) # {}

\* C28: a resource whose instance list is empty contributes nothing to the
\* graph, whatever its depends_on list: no node comes from it, and every edge
\* goes from a node of another resource to a target that this node's own
\* resource or instance names.
C28_EmptyResourceContributesNothing ==
    \A v \in Invocations :
        graph[v] # NoGraph =>
            \A r \in 1..Len(state[v][1].Resources) :
                state[v][1].Resources[r].Instances = <<>> =>
                    /\ \A k \in 1..Len(NodesOf(v)) : origin[v][k][1] # r
                    /\ \A e \in 1..Len(EdgesFrom(v)) :
                           \E k \in 1..Len(NodesOf(v)) :
                               /\ NodesOf(v)[k].ID = EdgesFrom(v)[e].Source
                               /\ origin[v][k][1] # r
                               /\ EdgesFrom(v)[e].Target \in TargetsOfNode(v, k)

\* C28 witness: BuildGraph returned for a document in which a resource with
\* a non-empty depends_on list and no instance comes before a resource with
\* instances; the graph has the nodes of the latter only.
C28_Witness ==
    \E v \in Invocations :
        /\ Returned(v)
        /\ Len(state[v][1].Resources) = 2
        /\ state[v][1].Resources[1].Instances = <<>>
        /\ state[v][1].Resources[1].DependsOn # <<>>
        /\ NodesOf(v) # <<>>
        /\ \A k \in 1..Len(NodesOf(v)) : origin[v][k][1] = 2
        /\ EdgesFrom(v) = <<>>

---------------------------------------------------------------------------
(* Discarded input: two invocations, each on a document of its own. The    *)
(* documents have one resource with one or two instances and range over    *)
(* the members that BuildGraph does not read (serial, lineage, outputs,    *)
(* schema_version, attributes_flat, private, the attribute secret) and     *)
(* over some that it reads (the attributes id and tags).                   *)

\* like InitPipeline, the second invocation having a payload of its own
InitPair(d1, d2) ==
    /\ data = [v \in Invocations |-> IF v = "run1" THEN d1 ELSE d2]
    /\ pc = [v \in Invocations |-> IF v = "run1" THEN "start" ELSE "idle"]
    /\ state = [v \in Invocations |-> NoState]
    /\ err = [v \in Invocations |-> ErrNil]
    /\ ri = [v \in Invocations |-> 0]
    /\ ii = [v \in Invocations |-> 0]
    /\ graph = [v \in Invocations |-> NoGraph]
    /\ nodeMap = [v \in Invocations |-> {}]
    /\ origin = [v \in Invocations |-> <<>>]
    /\ call = NoCall
    /\ ret = <<>>
    /\ NoHTTP

DiscardAttributes ==
    { [id |-> JString("i-1")],
      [id |-> JString("i-1"), secret |-> JString("s1")],
      [id |-> JString("i-1"), secret |-> JString("s2")],
      [id |-> JString("i-2"), secret |-> JString("s1")],
      [id |-> JString("i-1"), tags |-> JObject([env |-> JString("prod")])],
      [id |-> JString("i-1"), tags |-> JObject([env |-> JString("prod")]),
       password |-> JNumber(7)] }

DiscardInstances ==
    {[attributes |-> a, dependencies |-> <<"aws_vpc.main">>] : a \in DiscardAttributes}
    \cup {[attributes |-> a, dependencies |-> <<"aws_vpc.main">>,
            schema_version |-> 1, private |-> "cHJpdmF0ZQ==",
            attributes_flat |-> [id |-> "i-1"]] : a \in DiscardAttributes}

DiscardResource(instances) ==
    [mode |-> "managed", type |-> "aws_instance", name |-> "web", provider |-> "aws",
     depends_on |-> <<"aws_subnet.a">>, instances |-> instances]

\* a valid document with other serial and lineage, and with outputs
StateDocWithOutputs(resources) ==
    [version |-> 4, terraform_version |-> "1.5.0", serial |-> 7,
     lineage |-> "def-456",
     outputs |-> [ip       |-> [value |-> JString("10.0.0.1"), type |-> JString("string")],
                  count    |-> [value |-> JNumber(3), type |-> JString("number"),
                                sensitive |-> FALSE],
                  password |-> [value |-> JString("secret"), type |-> JString("string"),
                                sensitive |-> TRUE],
                  zones    |-> [value |-> JArray(<<JString("a"), JString("b")>>),
                                type |-> JArray(<<JString("list"), JString("string")>>)]],
     resources |-> resources]

DiscardPayloads ==
    {PayloadOf(StateDoc(<<DiscardResource(<<i>>)>>)) : i \in DiscardInstances}
    \cup {PayloadOf(StateDocWithOutputs(<<DiscardResource(<<i>>)>>)) : i \in DiscardInstances}
    \cup {PayloadOf(StateDoc(<<DiscardResource(<<i, InstKeyed>>)>>)) :
              i \in {[attributes |-> a, dependencies |-> <<"aws_vpc.main">>] :
                         a \in DiscardAttributes}}

InitDiscard == \E d1, d2 \in DiscardPayloads : InitPair(d1, d2)

SpecDiscard == InitDiscard /\ [][Next]_vars

\* the attributes that buildMetadata looks up
KeptAttributes == {"id", "name", "arn", "tags"}

Restrict(f, keys) == [k \in (DOMAIN f) \cap keys |-> f[k]]

\* instances a and b differ at most in SchemaVersion, AttributesFlat,
\* Private and in attributes other than id, name, arn and tags
SameKeptInstance(a, b) ==
    /\ Restrict(a.Attributes, KeptAttributes) = Restrict(b.Attributes, KeptAttributes)
    /\ a.Dependencies = b.Dependencies
    /\ a.IndexKey = b.IndexKey

\* states s and t differ at most in Serial, Lineage, Outputs and, instance
\* by instance, in what SameKeptInstance lets differ
SameKept(s, t) ==
    /\ s.Version = t.Version /\ s.TerraformVersion = t.TerraformVersion
    /\ Len(s.Resources) = Len(t.Resources)
    /\ \A r \in 1..Len(s.Resources) :
           LET a == s.Resources[r]
               b == t.Resources[r]
           IN  /\ a.Mode = b.Mode /\ a.Type = b.Type /\ a.Name = b.Name
               /\ a.Provider = b.Provider /\ a.Module = b.Module
               /\ a.DependsOn = b.DependsOn
               /\ Len(a.Instances) = Len(b.Instances)
               /\ \A k \in 1..Len(a.Instances) :
                      SameKeptInstance(a.Instances[k], b.Instances[k])

\* C29: the graph does not depend on discarded input: when BuildGraph has
\* returned for two states that differ at most in serial, lineage, outputs,
\* schema version, flat attributes, private blob and attributes other than
\* id, name, arn and tags, the two graphs have the same node sequence
\* (metadata included), the same edges, and the same sequence of edge sources.
C29_DiscardedInputInvisible ==
    (Returned("run1") /\ Returned("run2")
        /\ SameKept(state["run1"][1], state["run2"][1])) =>
        /\ NodesOf("run1") = NodesOf("run2")
        /\ Range(EdgesFrom("run1")) = Range(EdgesFrom("run2"))
        /\ Len(EdgesFrom("run1")) = Len(EdgesFrom("run2"))
        /\ \A k \in 1..Len(EdgesFrom("run1")) :
               EdgesFrom("run1")[k].Source = EdgesFrom("run2")[k].Source

\* C29 witness: BuildGraph has returned for two states that differ in
\* serial, lineage, outputs, and in the schema version, the private blob and
\* a discarded attribute of an instance, and in nothing that is kept; the
\* graphs have a node with tags in its metadata and two edges.
C29_Witness ==
    /\ Returned("run1") /\ Returned("run2")
    /\ SameKept(state["run1"][1], state["run2"][1])
    /\ state["run1"][1].Serial # state["run2"][1].Serial
    /\ state["run1"][1].Lineage # state["run2"][1].Lineage
    /\ state["run1"][1].Outputs # state["run2"][1].Outputs
    /\ LET a == state["run1"][1].Resources[1].Instances[1]
           b == state["run2"][1].Resources[1].Instances[1]
       IN  /\ a.SchemaVersion # b.SchemaVersion
           /\ a.Private # b.Private
           /\ a.AttributesFlat # b.AttributesFlat
           /\ DOMAIN a.Attributes # DOMAIN b.Attributes
    /\ "tags" \in DOMAIN NodesOf("run1")[1].Metadata
    /\ Len(EdgesFrom("run1")) = 2

---------------------------------------------------------------------------
(* Index keys that read like positions: one resource aws_s3_bucket.logs    *)
(* with up to MaxColliding instances, each either without index key (and   *)
(* depending on aws_vpc.main) or with one of the keys 0, 1, "1" and        *)
(* "frontend" (and depending on aws_subnet.a).                             *)

MaxColliding == 3

CollidingInstances ==
    {[attributes |-> [id |-> JString("plain")], dependencies |-> <<"aws_vpc.main">>]}
    \cup {[attributes |-> [id |-> JString("keyed")], index_key |-> key,
            dependencies |-> <<"aws_subnet.a">>] :
              key \in {JNumber(0), JNumber(1), JString("1"), JString("frontend")}}

CollidingPayloads ==
    {PayloadOf(StateDoc(<<MapPut(HeadBucket, "instances", is)>>)) :
        is \in SeqsUpTo(CollidingInstances, MaxColliding) \ {<<>>}}

InitColliding == \E d \in CollidingPayloads : InitPipeline(d)

SpecColliding == InitColliding /\ [][Next]_vars

\* the positions in the node sequence of invocation v of the nodes called id
NodePositions(v, id) == {k \in 1..Len(NodesOf(v)) : NodesOf(v)[k].ID = id}

\* the instances a (without index key, at zero-based position a - 1) and b
\* (whose index key reads a - 1) of resource r of state st, r having more
\* than one instance
KeyReadsPosition(st, r, a, b) ==
    LET res == st.Resources[r]
    IN  /\ Len(res.Instances) > 1
        /\ res.Instances[a].IndexKey = AnyNil
        /\ res.Instances[b].IndexKey # AnyNil
        /\ KeyText(res.Instances[b].IndexKey) = ToString(a - 1)

====
